---- MODULE Spec2Model ----
(***************************************************************************)
(* Navigation, behaviour and sighting layer of the tactical controller     *)
(* (src/src/navigation.py, src/src/utils.py, src/src/units.py).            *)
(*                                                                         *)
(* Number representation.  The program computes in floating point; the     *)
(* model computes in fixed point over the integers:                        *)
(*   - positions, PID errors, the PID integral and the velocity estimate   *)
(*     are whole world units;                                              *)
(*   - impulses, gains, damping factors and distance thresholds are in     *)
(*     units of 1/Q world unit (Q = 20 represents 0.3, 0.15, 0.2, 0.8,     *)
(*     0.1, 2.5 and 10.0 exactly);                                         *)
(*   - wall-clock time is in ticks of half a second.                       *)
(* Square roots and quotients are rounded as stated at each operator.      *)
(***************************************************************************)
EXTENDS Integers, Sequences, FiniteSets, TLC

\* ------------------------------------------------------------------------
\* Bounds of the model
\* ------------------------------------------------------------------------
MaxNavCalls == 5

MaxIter == 2

MaxClock == 3

\* responses dequeued in a patrol run
MaxPatrolIter == 4

\* responses the server sends on the units' streams, all units together
MaxResponses == 2

\* start() calls made on one unit
MaxStarts == 2

\* largest detection distance handed to get_arch_centre
MaxDistance == 14

\* responses dequeued, both units together, while sightings are relayed
MaxRelayIter == 3

\* latest clock reading while sightings are relayed
MaxRelayClock == 5

\* ------------------------------------------------------------------------
\* Fixed-point helpers
\* ------------------------------------------------------------------------
Q == 20

Abs(a) == IF a < 0 THEN -a ELSE a

Max(a, b) == IF a >= b THEN a ELSE b

\* quotient rounded toward zero, b > 0
TruncDiv(a, b) == IF a >= 0 THEN a \div b ELSE -((-a) \div b)

\* quotient rounded up, a >= 0, b > 0
CeilDiv(a, b) == (a + b - 1) \div b

RECURSIVE SqrtSearch(_, _, _)
\* largest r in lo..hi with r*r <= n  (lo*lo <= n)
SqrtSearch(n, lo, hi) ==
    IF lo >= hi THEN lo
    ELSE LET mid == (lo + hi + 1) \div 2
         IN  IF mid * mid <= n THEN SqrtSearch(n, mid, hi)
                               ELSE SqrtSearch(n, lo, mid - 1)

\* math.sqrt rounded down, 0 <= n < 2^31
FloorSqrt(n) == SqrtSearch(n, 0, 46340)

\* math.sqrt rounded up
CeilSqrt(n) == LET r == FloorSqrt(n) IN IF r * r = n THEN r ELSE r + 1

\* math.sqrt(a*a + b*b), rounded up; large operands are pre-scaled so that
\* the squares stay inside 32-bit integers
Norm(a, b) ==
    LET k == 1 + (Max(Abs(a), Abs(b)) \div 20000)
        ak == CeilDiv(Abs(a), k)
        bk == CeilDiv(Abs(b), k)
    IN  k * CeilSqrt(ak * ak + bk * bk)

\* Python None for an optional (x, y) tuple
None == << >>

\* squared distance between two positions, whole units
Dist2(p, t) == (t[1] - p[1]) * (t[1] - p[1]) + (t[2] - p[2]) * (t[2] - p[2])

\* math.sqrt(dx*dx + dy*dy) < thr, thr in 1/Q units (exact)
DistLess(p, t, thr) == Q * Q * Dist2(p, t) < thr * thr

\* ------------------------------------------------------------------------
\* navigation.py : PIDController
\* ------------------------------------------------------------------------
KP == (3 * Q) \div 10

KI == 0

KD == (15 * Q) \div 100

PIDController == [prev_error |-> 0, integral |-> 0]

\* compute(error, dt = 1.0): the output (1/Q units) and the controller after
PIDCompute(pid, error) ==
    LET p_term   == KP * error
        integral == pid.integral + error * 1
        i_term   == KI * integral
        d_term   == (KD * (error - pid.prev_error)) \div 1
    IN  [out |-> p_term + i_term + d_term,
         pid |-> [prev_error |-> error, integral |-> integral]]

\* ------------------------------------------------------------------------
\* navigation.py : UnitNavigator
\* ------------------------------------------------------------------------
ARRIVAL_THRESHOLD == (1 * Q) \div 10

MAX_IMPULSE == 10 * Q

VELOCITY_SCALE == 250

BASE_DAMPING == (2 * Q) \div 10

PROXIMITY_GAIN == (8 * Q) \div 10

DAMPING_RANGE == 15

UnitNavigator ==
    [last_pos |-> None, estimated_velocity |-> <<0, 0>>, target_pos |-> None,
     pid_x |-> PIDController, pid_y |-> PIDController]

\* a plausible slip: the difference is stored without the factor 250
update_position_unscaled(nav, current_pos) ==
    [nav EXCEPT
       !.estimated_velocity =
           IF nav.last_pos # None
           THEN << current_pos[1] - nav.last_pos[1],
                   current_pos[2] - nav.last_pos[2] >>
           ELSE @,
       !.last_pos = current_pos]

update_position(nav, current_pos) ==
    [nav EXCEPT
       !.estimated_velocity =
           IF nav.last_pos # None
           THEN << (current_pos[1] - nav.last_pos[1]) * VELOCITY_SCALE,
                   (current_pos[2] - nav.last_pos[2]) * VELOCITY_SCALE >>
           ELSE @,
       !.last_pos = current_pos]

\* a plausible slip: the controllers are kept when the target changes
set_target_keeps_pid(nav, target_pos) ==
    IF nav.target_pos # target_pos
    THEN [nav EXCEPT !.target_pos = target_pos]
    ELSE nav

\* a plausible slip: the equality test is dropped, every call resets
set_target_always_resets(nav, target_pos) ==
    [nav EXCEPT !.target_pos = target_pos,
                !.pid_x = PIDController,
                !.pid_y = PIDController]

set_target(nav, target_pos) ==
    IF nav.target_pos # target_pos
    THEN [nav EXCEPT !.target_pos = target_pos,
                     !.pid_x = PIDController,
                     !.pid_y = PIDController]
    ELSE nav

\* impulse_magnitude > max_impulse, decided exactly
ExceedsMax(ix, iy) ==
    \/ Abs(ix) > MAX_IMPULSE
    \/ Abs(iy) > MAX_IMPULSE
    \/ ix * ix + iy * iy > MAX_IMPULSE * MAX_IMPULSE

\* the arrival (braking) branch of get_navigation_impulse is taken
Arrived(nav) ==
    /\ nav.target_pos # None
    /\ nav.last_pos # None
    /\ DistLess(nav.last_pos, nav.target_pos, ARRIVAL_THRESHOLD)

\* a plausible slip: the estimate is returned without the sign change
BreakingForceNotNegated(nav) ==
    << nav.estimated_velocity[1] * Q, nav.estimated_velocity[2] * Q >>

\* breaking_x, breaking_y = -vx, -vy  (1/Q units)
BreakingForce(nav) ==
    << -(nav.estimated_velocity[1] * Q), -(nav.estimated_velocity[2] * Q) >>

\* get_navigation_impulse(): the returned vector (1/Q units) and the
\* navigator after the call (compute() updates the axis controllers)
get_navigation_impulse(nav) ==
    IF nav.target_pos = None \/ nav.last_pos = None
    THEN [impulse |-> <<0, 0>>, nav |-> nav]
    ELSE
      LET dx == nav.target_pos[1] - nav.last_pos[1]
          dy == nav.target_pos[2] - nav.last_pos[2]
          vx == nav.estimated_velocity[1]
          vy == nav.estimated_velocity[2]
      IN
      IF DistLess(nav.last_pos, nav.target_pos, ARRIVAL_THRESHOLD)
      THEN [impulse |-> BreakingForce(nav), nav |-> nav]
      ELSE
        LET cx == PIDCompute(nav.pid_x, dx)
            cy == PIDCompute(nav.pid_y, dy)
            \* distance in 1/Q units, rounded down
            distance == FloorSqrt(Q * Q * (dx * dx + dy * dy))
            proximity_factor == Max(0, Q - (distance \div DAMPING_RANGE))
            damping_factor ==
                BASE_DAMPING + ((proximity_factor * PROXIMITY_GAIN) \div Q)
            impulse_x == cx.out - vx * damping_factor
            impulse_y == cy.out - vy * damping_factor
            impulse_magnitude == Norm(impulse_x, impulse_y)
            clamped ==
                IF ExceedsMax(impulse_x, impulse_y)
                THEN << TruncDiv(impulse_x * MAX_IMPULSE, impulse_magnitude),
                        TruncDiv(impulse_y * MAX_IMPULSE, impulse_magnitude) >>
                ELSE << impulse_x, impulse_y >>
        IN  [impulse |-> clamped,
             nav |-> [nav EXCEPT !.pid_x = cx.pid, !.pid_y = cy.pid]]

\* is_at_target(arrival_threshold): thr = 0 stands for a falsy argument
\* (None or 0), which selects self.arrival_threshold
is_at_target(nav, thr) ==
    IF nav.target_pos = None \/ nav.last_pos = None
    THEN FALSE
    ELSE DistLess(nav.last_pos, nav.target_pos,
                  IF thr = 0 THEN ARRIVAL_THRESHOLD ELSE thr)

\* ------------------------------------------------------------------------
\* utils.py : geometry, message decoding, redundant commands
\* ------------------------------------------------------------------------
\* the directions in the order _process_detections visits them
DirectionOrder ==
    << "north", "northeast", "east", "southeast",
       "south", "southwest", "west", "northwest" >>

\* denominator of the direction vectors below
VEC_SCALE == 10000

\* directions[direction], in 1/VEC_SCALE; sqrt(2)/2 is 7071/10000
directions(direction) ==
    CASE direction = "north"     -> << 0, VEC_SCALE >>
      [] direction = "south"     -> << 0, -VEC_SCALE >>
      [] direction = "east"      -> << VEC_SCALE, 0 >>
      [] direction = "west"      -> << -VEC_SCALE, 0 >>
      [] direction = "northeast" -> << 7071, 7071 >>
      [] direction = "northwest" -> << -7071, 7071 >>
      [] direction = "southeast" -> << 7071, -7071 >>
      [] direction = "southwest" -> << -7071, -7071 >>

\* quotient rounded to the nearest integer, b > 0
RoundDiv(a, b) == IF a >= 0 THEN (2 * a + b) \div (2 * b)
                            ELSE -((2 * (-a) + b) \div (2 * b))

\* a plausible slip: the y component is taken from d[0] as well
get_arch_centre_same_component(direction, distance, x, y) ==
    LET d == directions(direction)
    IN  << x + RoundDiv(d[1] * distance, VEC_SCALE),
           y + RoundDiv(d[1] * distance, VEC_SCALE) >>

\* get_arch_centre(direction, distance, x, y), rounded to whole units
get_arch_centre(direction, distance, x, y) ==
    LET d == directions(direction)
    IN  << x + RoundDiv(d[1] * distance, VEC_SCALE),
           y + RoundDiv(d[2] * distance, VEC_SCALE) >>

\* A message text is a sequence of whitespace-separated tokens; a token
\* either is the decimal form of a number (float() returns val) or is not
\* (float() raises ValueError).
Num(v) == [num |-> TRUE, val |-> v]

Junk == [num |-> FALSE, val |-> 0]

\* f"{arch_x} {arch_y} {timestamp}": float -> repr, which float() reads
\* back to the same value
FormatSighting(x, y, timestamp) == << Num(x), Num(y), Num(timestamp) >>

\* index of the first message with HasField("value"), 0 if there is none
RECURSIVE FirstValued(_, _)
FirstValued(messages, i) ==
    IF i > Len(messages) THEN 0
    ELSE IF messages[i].has_value THEN i
    ELSE FirstValued(messages, i + 1)

\* msg_str.split() of the first valued message: Any.Unpack(StringValue)
\* fills the string only when the Any holds a StringValue, otherwise the
\* string stays empty
MsgTokens(msg) == IF msg.packed = "StringValue" THEN msg.text ELSE << >>

\* arch_x, arch_y, timestamp = utils.get_arch_x_arch_y_from_message(response)
\*   found  : three floats were unpacked (FALSE stands for (None, None, None))
\*   raised : map(float, ...) did not unpack into three floats (ValueError)
get_arch_x_arch_y_from_message(response) ==
    LET i == FirstValued(response.messages, 1)
    IN  IF i = 0
        THEN [raised |-> FALSE, found |-> FALSE, x |-> 0, y |-> 0, timestamp |-> 0]
        ELSE LET toks == MsgTokens(response.messages[i])
             IN  IF Len(toks) = 3 /\ \A k \in 1..3 : toks[k].num
                 THEN [raised |-> FALSE, found |-> TRUE, x |-> toks[1].val,
                       y |-> toks[2].val, timestamp |-> toks[3].val]
                 ELSE [raised |-> TRUE, found |-> FALSE, x |-> 0, y |-> 0,
                       timestamp |-> 0]

\* "if arch_x and arch_y": None and 0.0 are both falsy
BothTruthy(dec) == dec.found /\ dec.x # 0 /\ dec.y # 0

ThrustCommand(impulse) == [type |-> "thrust", impulse |-> impulse, text |-> << >>]

MsgCommand(text) == [type |-> "msg", impulse |-> << >>, text |-> text]

IMPULSE_REDUNDANCY == 1

MESSAGE_REDUNDANCY == 3

\* send_redundant_impulse(impulse, redundancy=1)
send_redundant_impulse(impulse, redundancy) ==
    [i \in 1..redundancy |-> ThrustCommand(impulse)]

\* a plausible slip: the yield is outside the loop, one command only
send_redundant_message_once(message_content, redundancy) ==
    << MsgCommand(message_content) >>

\* send_redundant_message(message_content, redundancy=3)
send_redundant_message(message_content, redundancy) ==
    [i \in 1..redundancy |-> MsgCommand(message_content)]

\* ------------------------------------------------------------------------
\* radar.py : Radar (simulator.py 32 makes one, 70 and 106 hand it to
\* every unit)
\* ------------------------------------------------------------------------
\* the units of a simulation taking part in the model
Units == { "sensor", "strike" }

\* radar.py 149: self.units[unit_id] = (x, y, color)
draw_unit(units, unit_id, pos) == [units EXCEPT ![unit_id] = pos]

\* radar.py 152: the keys that `for ... in self.units.items()` goes over
UnitsItems(units) == { u \in Units : units[u] # None }

\* ------------------------------------------------------------------------
\* units.py : SensorUnit
\* ------------------------------------------------------------------------
\* delta_time < 1.0, in half-second ticks
FRESH_WINDOW == 2

\* time.time() when the units are constructed: one freshness window after
\* the model's time 0
StartClock == FRESH_WINDOW

PATROL_ARRIVAL == (25 * Q) \div 10

ATTACK_ARRIVAL == 10 * Q

patrol_positions == << <<50, 50>>, <<-50, 50>>, <<-50, -50>>, <<50, -50>> >>

subpatrol_positions == << <<10, 10>>, <<-10, 10>>, <<-10, -10>>, <<10, -10>> >>

\* the patrol_position property (subpatrol_idx counts from 0)
patrol_position(s) ==
    << patrol_positions[s.unit_id][1]
         + subpatrol_positions[s.subpatrol_idx + 1][1],
       patrol_positions[s.unit_id][2]
         + subpatrol_positions[s.subpatrol_idx + 1][2] >>

\* a plausible slip: the navigator is not given the first waypoint
SensorUnitUntargeted(unit_id, start_position) ==
    [unit_id |-> unit_id, position |-> start_position,
     state |-> "PATROL", target_position |-> None,
     subpatrol_idx |-> 0, navigator |-> UnitNavigator]

\* SensorUnit.__init__
SensorUnit(unit_id, start_position) ==
    LET s0 == [unit_id |-> unit_id, position |-> start_position,
               state |-> "PATROL", target_position |-> None,
               subpatrol_idx |-> 0, navigator |-> UnitNavigator]
    IN  [s0 EXCEPT !.navigator = set_target(UnitNavigator, patrol_position(s0))]

\* patrol_position[k] * 0.2 (the corners and offsets are multiples of 10)
Fifth(v) == TruncDiv(2 * v, 10)

\* a plausible slip: the state is left as it was
AttackTargetStateKept(s, target_position) ==
    [s EXCEPT !.target_position = target_position,
              !.navigator = set_target(s.navigator, target_position)]

\* a plausible slip: the target is recorded, the navigator is not told
AttackTargetNotSteered(s, target_position) ==
    [s EXCEPT !.state = "ATTACK",
              !.target_position = target_position]

\* units.py 148-153 and 192-195: self.state = ATTACK, self.target_position
\* = ..., self.navigator.set_target(self.target_position)
AttackTarget(s, target_position) ==
    [s EXCEPT !.state = "ATTACK",
              !.target_position = target_position,
              !.navigator = set_target(s.navigator, target_position)]

\* a plausible slip: the return to Patrol moves on to the next waypoint
ReturnToPatrolAdvances(s) ==
    LET s2 == [s EXCEPT !.state = "PATROL",
                        !.subpatrol_idx =
                            (s.subpatrol_idx + 1) % Len(subpatrol_positions)]
    IN  [s2 EXCEPT !.navigator = set_target(s2.navigator, patrol_position(s2))]

\* a plausible slip: the navigator keeps steering at the attack target
ReturnToPatrolTargetKept(s) ==
    [s EXCEPT !.state = "PATROL"]

\* units.py 221-222: self.state = PATROL, set_target(self.patrol_position)
ReturnToPatrol(s) ==
    [s EXCEPT !.state = "PATROL",
              !.navigator = set_target(s.navigator, patrol_position(s))]

\* a plausible slip: the relay is stamped with the time of relaying
SensorMessageStepRestamped(s, dec, now) ==
    IF BothTruthy(dec) /\ now - dec.timestamp < FRESH_WINDOW
    THEN LET tp == << Fifth(patrol_position(s)[1]) + dec.x,
                      Fifth(patrol_position(s)[2]) + dec.y >>
         IN  [s |-> AttackTarget(s, tp),
              cmds |-> send_redundant_message(
                           FormatSighting(dec.x, dec.y, now),
                           MESSAGE_REDUNDANCY)]
    ELSE [s |-> s, cmds |-> << >>]

\* a plausible slip: the age of the sighting is not looked at
SensorMessageStepAnyAge(s, dec, now) ==
    IF BothTruthy(dec)
    THEN LET tp == << Fifth(patrol_position(s)[1]) + dec.x,
                      Fifth(patrol_position(s)[2]) + dec.y >>
         IN  [s |-> AttackTarget(s, tp),
              cmds |-> send_redundant_message(
                           FormatSighting(dec.x, dec.y, dec.timestamp),
                           MESSAGE_REDUNDANCY)]
    ELSE [s |-> s, cmds |-> << >>]

\* units.py 144-162: the received sighting.  Result: the unit and the
\* commands yielded.
SensorMessageStep(s, dec, now) ==
    IF BothTruthy(dec) /\ now - dec.timestamp < FRESH_WINDOW
    THEN LET tp == << Fifth(patrol_position(s)[1]) + dec.x,
                      Fifth(patrol_position(s)[2]) + dec.y >>
         IN  [s |-> AttackTarget(s, tp),
              cmds |-> send_redundant_message(
                           FormatSighting(dec.x, dec.y, dec.timestamp),
                           MESSAGE_REDUNDANCY)]
    ELSE [s |-> s, cmds |-> << >>]

\* _process_detections: (direction, class, distance) of the fields that are
\* set, in DirectionOrder; class 0 reads "OBSTACLE", anything else "TARGET"
RECURSIVE ProcessFrom(_, _)
ProcessFrom(detections, i) ==
    IF i > Len(DirectionOrder) THEN << >>
    ELSE LET direction == DirectionOrder[i]
             rest == ProcessFrom(detections, i + 1)
         IN  IF direction \in DOMAIN detections
             THEN << [direction |-> direction,
                      detection_class |->
                          IF detections[direction].class = 0
                          THEN "OBSTACLE" ELSE "TARGET",
                      distance |-> detections[direction].distance] >> \o rest
             ELSE rest

\* a plausible slip: the directions are visited in the opposite order
process_detections_reversed(detections) ==
    LET r == ProcessFrom(detections, 1)
    IN  [i \in 1..Len(r) |-> r[Len(r) + 1 - i]]

process_detections(detections) == ProcessFrom(detections, 1)

\* units.py 169-195: the loop over the detections, from the i-th on
RECURSIVE SensorDetectionLoop(_, _, _, _, _)
SensorDetectionLoop(s, cmds, dets, i, now) ==
    IF i > Len(dets) THEN [s |-> s, cmds |-> cmds]
    ELSE IF dets[i].detection_class = "TARGET"
    THEN LET arch == get_arch_centre(dets[i].direction, dets[i].distance,
                                     s.position[1], s.position[2])
             sent == send_redundant_message(
                         FormatSighting(arch[1], arch[2], now),
                         MESSAGE_REDUNDANCY)
         IN  SensorDetectionLoop(AttackTarget(s, arch), cmds \o sent,
                                 dets, i + 1, now)
    ELSE SensorDetectionLoop(s, cmds, dets, i + 1, now)

\* units.py 164-195
SensorDetectionStep(s, response, now) ==
    IF response.has_detections
    THEN SensorDetectionLoop(s, << >>, process_detections(response.detections),
                             1, now)
    ELSE [s |-> s, cmds |-> << >>]

\* a plausible slip: the index moves on, the navigator is not re-targeted
NextSubpatrolTargetKept(s) ==
    [s EXCEPT !.subpatrol_idx =
                  (s.subpatrol_idx + 1) % Len(subpatrol_positions)]

\* units.py 205-208: move to the next subpatrol position
NextSubpatrol(s) ==
    LET s2 == [s EXCEPT !.subpatrol_idx =
                            (s.subpatrol_idx + 1) % Len(subpatrol_positions)]
    IN  [s2 EXCEPT !.navigator = set_target(s2.navigator, patrol_position(s2))]

\* units.py 197-223: state-based navigation.  Result: the unit and
\* navigation_impulse.
SensorStateBranch(s) ==
    LET r1 == get_navigation_impulse(s.navigator)
        s1 == [s EXCEPT !.navigator = r1.nav]
    IN  IF s.state = "PATROL"
        THEN IF is_at_target(s1.navigator, PATROL_ARRIVAL)
             THEN [s |-> NextSubpatrol(s1), impulse |-> r1.impulse]
             ELSE [s |-> s1, impulse |-> r1.impulse]
        ELSE IF is_at_target(s1.navigator, ATTACK_ARRIVAL)
             THEN LET s2 == ReturnToPatrol(s1)
                      r2 == get_navigation_impulse(s2.navigator)
                  IN  [s |-> [s2 EXCEPT !.navigator = r2.nav],
                       impulse |-> r2.impulse]
             ELSE [s |-> s1, impulse |-> r1.impulse]

\* a plausible slip: the movement command is yielded first
PassCommandsThrustFirst(relayed, own, impulse) ==
    send_redundant_impulse(impulse, IMPULSE_REDUNDANCY) \o relayed \o own

\* the yields of one pass in program order: the relay of the received
\* sighting (units.py 159-162, 349-352), the broadcasts of the own
\* detections (187-190), the movement command (229-232, 362-365)
PassCommands(relayed, own, impulse) ==
    relayed \o own \o send_redundant_impulse(impulse, IMPULSE_REDUNDANCY)

\* a plausible slip: the own detections are handled before the message
SensorIterationDetectionsFirst(s, response, now) ==
    LET s0  == [s EXCEPT !.position = response.pos,
                         !.navigator = update_position(s.navigator, response.pos)]
        dec == get_arch_x_arch_y_from_message(response)
    IN  IF dec.raised
        THEN [s |-> s0, cmds |-> << >>, aborted |-> TRUE,
              afterMsg |-> s0, atBranch |-> s0]
        ELSE LET d  == SensorDetectionStep(s0, response, now)
                 m  == SensorMessageStep(d.s, dec, now)
                 b  == SensorStateBranch(m.s)
             IN  [s |-> b.s,
                  cmds |-> PassCommands(d.cmds, m.cmds, b.impulse),
                  aborted |-> FALSE,
                  afterMsg |-> d.s, atBranch |-> m.s]

\* units.py 127-235: one pass of the while loop for a dequeued response.
\* Result: the unit afterwards, the commands yielded, whether the pass was
\* cut short by an exception (caught at 234), and the unit as it was after
\* the message step and when the state branch started.
SensorIteration(s, response, now) ==
    LET s0  == [s EXCEPT !.position = response.pos,
                         !.navigator = update_position(s.navigator, response.pos)]
        dec == get_arch_x_arch_y_from_message(response)
    IN  IF dec.raised
        THEN [s |-> s0, cmds |-> << >>, aborted |-> TRUE,
              afterMsg |-> s0, atBranch |-> s0]
        ELSE LET m  == SensorMessageStep(s0, dec, now)
                 d  == SensorDetectionStep(m.s, response, now)
                 b  == SensorStateBranch(d.s)
             IN  [s |-> b.s,
                  cmds |-> PassCommands(m.cmds, d.cmds, b.impulse),
                  aborted |-> FALSE,
                  afterMsg |-> m.s, atBranch |-> d.s]

\* units.py 133-135, 234: the pass when draw_unit raises (RuntimeError of
\* the dict iteration): the position is stored, the rest is skipped
SensorDrawRaised(s, response) ==
    LET s0 == [s EXCEPT !.position = response.pos]
    IN  [s |-> s0, cmds |-> << >>, aborted |-> TRUE,
         afterMsg |-> s0, atBranch |-> s0]

\* ------------------------------------------------------------------------
\* units.py : StrikeUnit
\* ------------------------------------------------------------------------
\* StrikeUnit.__init__
StrikeUnit ==
    [position |-> <<0, 0>>, target_position |-> None, navigator |-> UnitNavigator]

\* a plausible slip: the target is recorded, the navigator is not told
StrikeAcceptNotSteered(k, dec) ==
    [k EXCEPT !.target_position = << dec.x, dec.y >>]

\* units.py 342-343: self.target_position = (arch_x, arch_y),
\* self.navigator.set_target(self.target_position)
StrikeAccept(k, dec) ==
    [k EXCEPT !.target_position = << dec.x, dec.y >>,
              !.navigator = set_target(k.navigator, << dec.x, dec.y >>)]

\* units.py 320-368: one pass of the while loop for a dequeued response
StrikeIteration(k, response, now) ==
    LET k0  == [k EXCEPT !.position = response.pos,
                         !.navigator = update_position(k.navigator, response.pos)]
        dec == get_arch_x_arch_y_from_message(response)
    IN  IF dec.raised
        THEN [s |-> k0, cmds |-> << >>, aborted |-> TRUE,
              afterMsg |-> k0, atBranch |-> k0]
        ELSE LET accepted == BothTruthy(dec)
                             /\ now - dec.timestamp < FRESH_WINDOW
                 k1 == IF BothTruthy(dec)
                       THEN IF now - dec.timestamp < FRESH_WINDOW
                            THEN StrikeAccept(k0, dec)
                            ELSE k0
                       ELSE IF is_at_target(k0.navigator, ATTACK_ARRIVAL)
                            THEN [k0 EXCEPT !.navigator =
                                      set_target(k0.navigator, <<0, 0>>)]
                            ELSE k0
                 sent == IF accepted
                         THEN send_redundant_message(
                                  FormatSighting(dec.x, dec.y, dec.timestamp),
                                  MESSAGE_REDUNDANCY)
                         ELSE << >>
                 r  == get_navigation_impulse(k1.navigator)
             IN  [s |-> [k1 EXCEPT !.navigator = r.nav],
                  cmds |-> PassCommands(sent, << >>, r.impulse),
                  aborted |-> FALSE,
                  afterMsg |-> k1, atBranch |-> k1]

\* units.py 326-331, 367: the pass when draw_unit raises: position and
\* navigator are updated, the rest is skipped
StrikeDrawRaised(k, response) ==
    LET k0 == [k EXCEPT !.position = response.pos,
                        !.navigator = update_position(k.navigator, response.pos)]
    IN  [s |-> k0, cmds |-> << >>, aborted |-> TRUE,
         afterMsg |-> k0, atBranch |-> k0]

\* ------------------------------------------------------------------------
\* State
\* ------------------------------------------------------------------------
VARIABLES
    nav,        \* a UnitNavigator driven through its public methods
    navOp,      \* the last method call on nav: name, argument, result, and
                \* the navigator as it was before the call
    navSince,   \* the (dx, dy) errors handed to compute() since the
                \* currently active target was set
    navCalls,   \* number of method calls made on nav
    sensor,     \* the SensorUnit object
    strike,     \* the StrikeUnit object
    gen,        \* where each unit's _command_generator stands:
                \* "created" (not started), "loop" (at response_queue.get()),
                \* "test" (at `while self.running`), "done" (returned)
    last,       \* the last generator step: unit, response, clock reading,
                \* commands yielded, and the unit before / after the
                \* message step / when the state branch started
    clock,      \* time.time(), in ticks
    iters,      \* number of responses dequeued so far
    trail,      \* the waypoint indexes the sensor reached by its latest
                \* run of consecutive Patrol arrivals, and the index the
                \* run started from
    arch,       \* a call of get_arch_centre: its arguments and its result
    running,    \* self.running of each unit
    thread,     \* self.thread of each unit: "none" or "set"
    rd,         \* where each unit's _control_loop stands: "idle" (no thread
                \* started), "recv" (in `for response in responses`),
                \* "stopped" (left by break), "ended" (stream exhausted),
                \* "failed" (exception caught)
    queue,      \* self.response_queue of each unit
    recvd,      \* number of responses each unit's stream has delivered;
                \* the n-th carries seq = n
    taken,      \* seq of the responses each generator has dequeued, in order
    outbound,   \* the commands each generator has yielded, in order, each
                \* with the seq of the response it was yielded for (0: none)
    radar,      \* Radar.units of the one Radar object handed to every unit:
                \* the position stored under each unit id (None: no key)
    drew,       \* the latest draw_unit call of each unit: the keys of
                \* Radar.units its loop went over, and whether it raised
    old,        \* per unit, the reader and generator of every thread that
                \* an earlier start() made and a later start() replaced:
                \* where they stand, and whether they have since put onto
                \* or taken from the unit's queue
    sighted,    \* when the units exchange sightings through the server:
                \* time.time() of the latest pass in which a unit found a
                \* TARGET among its own detections (0: none so far)
    aired       \* the texts of the Broadcasts the units have sent to the
                \* server so far

navVars == <<nav, navOp, navSince, navCalls>>

unitVars == <<sensor, strike, gen, last, clock, iters, trail>>

geoVars == <<arch>>

loopVars == <<running, thread, rd, queue, recvd, taken, outbound>>

radarVars == <<radar, drew>>

restartVars == <<old>>

relayVars == <<sighted, aired>>

vars == <<nav, navOp, navSince, navCalls, sensor, strike, gen, last, clock,
          iters, trail, arch, running, thread, rd, queue, recvd, taken,
          outbound, radar, drew, old, sighted,
          aired>>

\* ------------------------------------------------------------------------
\* Navigator driven directly (navigation.py)
\* ------------------------------------------------------------------------
\* positions and targets handed to the navigator
NavPoints == { <<0, 0>>, <<1, 0>>, <<30, 40>> }

NavInit ==
    /\ nav = UnitNavigator
    /\ navOp = [op |-> "init", arg |-> None, thr |-> 0, impulse |-> None,
                at |-> FALSE, before |-> UnitNavigator]
    /\ navSince = << >>
    /\ navCalls = 0

NavUpdatePosition ==
    /\ navCalls < MaxNavCalls
    /\ \E p \in NavPoints :
         /\ nav' = update_position(nav, p)
         /\ navOp' = [op |-> "update_position", arg |-> p, thr |-> 0,
                      impulse |-> None, at |-> FALSE, before |-> nav]
    /\ navCalls' = navCalls + 1
    /\ UNCHANGED navSince
    /\ UNCHANGED <<restartVars, unitVars, geoVars, relayVars, loopVars, radarVars>>

NavSetTarget ==
    /\ navCalls < MaxNavCalls
    /\ \E t \in NavPoints :
         /\ nav' = set_target(nav, t)
         /\ navOp' = [op |-> "set_target", arg |-> t, thr |-> 0,
                      impulse |-> None, at |-> FALSE, before |-> nav]
         /\ navSince' = IF nav.target_pos # t THEN << >> ELSE navSince
    /\ navCalls' = navCalls + 1
    /\ UNCHANGED <<restartVars, unitVars, geoVars, relayVars, loopVars, radarVars>>

NavGetImpulse ==
    /\ navCalls < MaxNavCalls
    /\ LET r == get_navigation_impulse(nav)
       IN  /\ nav' = r.nav
           /\ navOp' = [op |-> "get_navigation_impulse", arg |-> None,
                        thr |-> 0, impulse |-> r.impulse, at |-> FALSE,
                        before |-> nav]
    /\ navSince' =
         IF nav.target_pos # None /\ nav.last_pos # None /\ ~Arrived(nav)
         THEN Append(navSince, << nav.target_pos[1] - nav.last_pos[1],
                                  nav.target_pos[2] - nav.last_pos[2] >>)
         ELSE navSince
    /\ navCalls' = navCalls + 1
    /\ UNCHANGED <<restartVars, unitVars, geoVars, relayVars, loopVars, radarVars>>

\* is_at_target() and is_at_target(t) for t = 0, 2.5 and 10.0: `given`
\* tells whether the caller passed a threshold
NavIsAtTarget ==
    /\ navCalls < MaxNavCalls
    /\ \E given \in BOOLEAN :
         \E thr \in IF given THEN { 0, (25 * Q) \div 10, 10 * Q } ELSE { 0 } :
             navOp' = [op |-> "is_at_target", arg |-> None, thr |-> thr,
                       given |-> given, impulse |-> None,
                       at |-> is_at_target(nav, thr), before |-> nav]
    /\ navCalls' = navCalls + 1
    /\ UNCHANGED <<nav, navSince>>
    /\ UNCHANGED <<restartVars, unitVars, geoVars, relayVars, loopVars, radarVars>>

NavNext ==
    \/ NavUpdatePosition
    \/ NavSetTarget
    \/ NavGetImpulse
    \/ NavIsAtTarget

\* ------------------------------------------------------------------------
\* The units' command generators (units.py)
\* ------------------------------------------------------------------------
\* positions reported to a sensor unit
SensorPositions == { <<0, 0>>, <<60, 59>> }

\* response.detections (class 0 = OBSTACLE, 1 = TARGET)
NoDetections == [has |-> FALSE, det |-> << >>]

TargetNorth(distance) ==
    [has |-> TRUE, det |-> [north |-> [class |-> 1, distance |-> distance]]]

\* a relayed sighting as the units send it: Any packing a StringValue
SightingMsg(x, y, timestamp) ==
    [has_value |-> TRUE, packed |-> "StringValue",
     text |-> FormatSighting(x, y, timestamp)]

\* a text that is not three numbers
JunkMsg ==
    [has_value |-> TRUE, packed |-> "StringValue", text |-> << Junk, Num(4) >>]

\* an Any that packs another type than StringValue
ForeignMsg == [has_value |-> TRUE, packed |-> "Other", text |-> << >>]

\* response.messages: none; a sighting stamped one tick before the start
\* of the run; a sighting on the y axis; undecodable payloads
MessageInputs ==
    { << >>,
      << SightingMsg(3, 4, StartClock - 1) >>,
      << SightingMsg(0, 4, StartClock - 1) >>,
      << JunkMsg >>,
      << ForeignMsg >> }

\* detections and messages that arrive together in one response
SensorPayloads ==
    { [d |-> NoDetections, m |-> m] : m \in MessageInputs }
    \cup { [d |-> d, m |-> << >>] :
             d \in { TargetNorth(5), TargetNorth(12),
                     [has |-> TRUE,
                      det |-> [east |-> [class |-> 0, distance |-> 3],
                               southwest |-> [class |-> 1, distance |-> 20]]] } }
    \cup { [d |-> TargetNorth(12), m |-> << SightingMsg(3, 4, StartClock - 1) >>],
           [d |-> TargetNorth(5), m |-> << JunkMsg >>] }

SensorResponses ==
    { [pos |-> p, has_detections |-> c.d.has, detections |-> c.d.det,
       messages |-> c.m] :
         p \in SensorPositions, c \in SensorPayloads }

StrikeResponses ==
    { [pos |-> p, has_detections |-> FALSE, detections |-> << >>,
       messages |-> m] :
         p \in { <<0, 0>>, <<30, 40>> }, m \in MessageInputs }

NoResponse ==
    [pos |-> <<0, 0>>, has_detections |-> FALSE, detections |-> << >>,
     messages |-> << >>]

UnitInit ==
    /\ sensor \in { SensorUnit(id, <<0, 0>>) : id \in { 1, 3 } }
    /\ strike = StrikeUnit
    /\ gen = [sensor |-> "created", strike |-> "created"]
    /\ last = [unit |-> "none", kind |-> "init", response |-> NoResponse,
               now |-> StartClock, aborted |-> FALSE, cmds |-> << >>, pre |-> StrikeUnit,
               afterMsg |-> StrikeUnit, atBranch |-> StrikeUnit]
    /\ clock = StartClock
    /\ iters = 0
    /\ trail = [from |-> 0, idx |-> << >>]

\* a plausible slip: the generator goes straight into its loop
InitialCommandsNone == << >>

\* units.py 120-125 and 313-318: initial command with zero impulse
InitialCommands == << ThrustCommand(<<0, 0>>) >>

\* units.py 116-125: the generator runs up to its first yield
SensorGeneratorStart ==
    /\ gen.sensor = "created"
    /\ gen' = [gen EXCEPT !.sensor = "loop"]
    /\ last' = [unit |-> "sensor", kind |-> "start", response |-> NoResponse,
                now |-> clock, aborted |-> FALSE, cmds |-> InitialCommands,
                pre |-> sensor, afterMsg |-> sensor, atBranch |-> sensor]
    /\ UNCHANGED <<sensor, strike, clock, iters, trail>>
    /\ UNCHANGED <<restartVars, navVars, geoVars, relayVars, loopVars, radarVars>>

\* units.py 306-318: the generator runs up to its first yield
StrikeGeneratorStart ==
    /\ gen.strike = "created"
    /\ gen' = [gen EXCEPT !.strike = "loop"]
    /\ strike' = [strike EXCEPT !.navigator = set_target(strike.navigator, <<0, 0>>)]
    /\ last' = [unit |-> "strike", kind |-> "start", response |-> NoResponse,
                now |-> clock, aborted |-> FALSE, cmds |-> InitialCommands,
                pre |-> strike, afterMsg |-> strike', atBranch |-> strike']
    /\ UNCHANGED <<sensor, clock, iters, trail>>
    /\ UNCHANGED <<restartVars, navVars, geoVars, relayVars, loopVars, radarVars>>

\* the pass r reached the state branch in Patrol with the unit nearer than
\* 2.5 to the navigation target (units.py 198, 203)
PatrolArrival(r) ==
    /\ ~r.aborted
    /\ r.atBranch.state = "PATROL"
    /\ DistLess(r.atBranch.position, r.atBranch.navigator.target_pos,
                PATROL_ARRIVAL)

\* units.py 127-235: the sensor's generator dequeues one of the given
\* responses and runs one pass of its loop
SensorStep(responses, bound) ==
    /\ gen.sensor = "loop"
    /\ iters < bound
    /\ \E response \in responses :
         \E r \in { SensorIteration(sensor, response, clock) } :
             /\ sensor' = r.s
             /\ last' = [unit |-> "sensor", kind |-> "iteration",
                         response |-> response, now |-> clock,
                         aborted |-> r.aborted,
                         cmds |-> r.cmds, pre |-> sensor,
                         afterMsg |-> r.afterMsg, atBranch |-> r.atBranch]
             /\ trail' = IF PatrolArrival(r)
                         THEN [from |-> IF trail.idx = << >>
                                        THEN sensor.subpatrol_idx
                                        ELSE trail.from,
                               idx |-> Append(trail.idx, r.s.subpatrol_idx)]
                         ELSE [from |-> 0, idx |-> << >>]
             /\ radar' = draw_unit(radar, "sensor", response.pos)
             /\ drew' = [drew EXCEPT !["sensor"] =
                             [keys |-> UnitsItems(radar'), raised |-> FALSE]]
    /\ iters' = iters + 1
    /\ UNCHANGED <<strike, gen, clock>>
    /\ UNCHANGED <<restartVars, navVars, geoVars, relayVars, loopVars>>

SensorGenerate == SensorStep(SensorResponses, MaxIter)

\* units.py 320-368: the strike unit's generator dequeues a response and
\* runs one pass of its loop
StrikeGenerate ==
    /\ gen.strike = "loop"
    /\ iters < MaxIter
    /\ \E response \in StrikeResponses :
         \E r \in { StrikeIteration(strike, response, clock) } :
             /\ strike' = r.s
             /\ last' = [unit |-> "strike", kind |-> "iteration",
                         response |-> response, now |-> clock,
                         aborted |-> r.aborted,
                         cmds |-> r.cmds, pre |-> strike,
                         afterMsg |-> r.afterMsg, atBranch |-> r.atBranch]
             /\ radar' = draw_unit(radar, "strike", response.pos)
             /\ drew' = [drew EXCEPT !["strike"] =
                             [keys |-> UnitsItems(radar'), raised |-> FALSE]]
    /\ iters' = iters + 1
    /\ UNCHANGED <<sensor, gen, clock, trail>>
    /\ UNCHANGED <<restartVars, navVars, geoVars, relayVars, loopVars>>

\* wall-clock time passes
Tick ==
    /\ clock < MaxClock
    /\ clock' = clock + 1
    /\ UNCHANGED <<sensor, strike, gen, last, iters, trail>>
    /\ UNCHANGED <<restartVars, navVars, geoVars, relayVars, loopVars, radarVars>>

Next ==
    \/ SensorGeneratorStart
    \/ StrikeGeneratorStart
    \/ SensorGenerate
    \/ StrikeGenerate
    \/ Tick

\* no detection handled and no Broadcast sent yet
RelayIdle == sighted = 0 /\ aired = {}

\* units.py 50-52 and 279-281: empty queue, running False, no thread
LoopIdle ==
    /\ running = [u \in Units |-> FALSE]
    /\ thread = [u \in Units |-> "none"]
    /\ rd = [u \in Units |-> "idle"]
    /\ queue = [u \in Units |-> << >>]
    /\ recvd = [u \in Units |-> 0]
    /\ taken = [u \in Units |-> << >>]
    /\ outbound = [u \in Units |-> << >>]

\* radar.py 36: self.units = {}, no unit is on the radar yet and draw_unit
\* has not been called
RadarIdle ==
    /\ radar = [u \in Units |-> None]
    /\ drew = [u \in Units |-> [keys |-> {}, raised |-> FALSE]]

\* units.py 52 and 281: self.thread = None, no thread has been replaced
NoOldTasks == old = [u \in Units |-> << >>]

\* no call of get_arch_centre is in progress
ArchIdle ==
    arch = [direction |-> "north", distance |-> 0, x |-> 0, y |-> 0,
            out |-> None]

Init ==
    /\ NavInit /\ UnitInit /\ ArchIdle /\ LoopIdle /\ RadarIdle /\ NoOldTasks
    /\ RelayIdle

\* the units' generators, fed with responses directly (the threads, queues
\* and running flags of the units stay as constructed and play no part)
Spec == Init /\ [][Next]_vars

\* the navigator alone, the units not started
InitNav ==
    /\ NavInit
    /\ UnitInit
    /\ ArchIdle
    /\ LoopIdle
    /\ RadarIdle
    /\ NoOldTasks
    /\ RelayIdle
    /\ sensor.unit_id = 1

SpecNav == InitNav /\ [][NavNext]_vars

\* ------------------------------------------------------------------------
\* A sensor unit on its patrol round (units.py)
\* ------------------------------------------------------------------------
\* responses on a patrol round of sensor 1, at the four waypoints around its
\* home corner: nothing in sight, or a target 12 north
PatrolResponses ==
    { [pos |-> p, has_detections |-> d.has, detections |-> d.det,
       messages |-> << >>] :
         p \in { <<60, 60>>, <<40, 60>>, <<40, 40>>, <<60, 40>> },
         d \in { NoDetections, TargetNorth(12) } }

InitPatrol ==
    /\ NavInit
    /\ UnitInit
    /\ ArchIdle
    /\ LoopIdle
    /\ RadarIdle
    /\ NoOldTasks
    /\ RelayIdle
    /\ sensor.unit_id = 1

PatrolGenerate == SensorStep(PatrolResponses, MaxPatrolIter)

PatrolNext ==
    \/ SensorGeneratorStart
    \/ PatrolGenerate

SpecPatrol == InitPatrol /\ [][PatrolNext]_vars

\* ------------------------------------------------------------------------
\* A sensor unit fed with responses of less usual content (units.py)
\* ------------------------------------------------------------------------
\* nothing at all; a sample whose class is neither OBSTACLE (0) nor
\* TARGET (1); targets in three directions and an obstacle in a fourth;
\* two sightings in one response, the first of them a full freshness
\* window old at the start of the run, the second one tick old
OddResponses ==
    { [pos |-> p, has_detections |-> c.d.has, detections |-> c.d.det,
       messages |-> c.m] :
         p \in SensorPositions \cup { <<0, 5>> },
         c \in { [d |-> NoDetections, m |-> << >>],
                 [d |-> [has |-> TRUE,
                         det |-> [north |-> [class |-> 2, distance |-> 12]]],
                  m |-> << >>],
                 [d |-> [has |-> TRUE,
                         det |-> [northwest |-> [class |-> 1, distance |-> 7],
                                  south |-> [class |-> 1, distance |-> 5],
                                  east |-> [class |-> 0, distance |-> 3],
                                  north |-> [class |-> 1, distance |-> 12]]],
                  m |-> << >>],
                 [d |-> NoDetections,
                  m |-> << SightingMsg(5, 6, StartClock - FRESH_WINDOW),
                           SightingMsg(3, 4, StartClock - 1) >>] } }

OddGenerate == SensorStep(OddResponses, MaxIter)

OddNext ==
    \/ SensorGeneratorStart
    \/ OddGenerate

SpecOdd == Init /\ [][OddNext]_vars

\* ------------------------------------------------------------------------
\* The sensor unit of simulation_controller.py
\* ------------------------------------------------------------------------
\* simulation_controller.py 65-75 and 127-140: BaseUnit.__init__ and
\* SensorUnit.__init__ (the patrol position is one of the four corners)
ControllerSensorUnit(unit_id) ==
    [unit_id |-> unit_id, position |-> <<0, 0>>, detections |-> << >>,
     patrol_position |-> patrol_positions[((unit_id - 1) % 4) + 1],
     navigator |-> UnitNavigator]

\* simulation_controller.py 170-219: one pass of the while loop for a
\* dequeued response.  The `continue` of line 199 stands in the body of
\* `for target in targets` and goes on with the next target; after the
\* last target the pass runs on to the movement command.
ControllerIteration(s, response) ==
    LET nav1 == update_position(s.navigator, response.pos)
        detections == IF response.has_detections
                      THEN process_detections(response.detections)
                      ELSE s.detections
        targets == IF response.has_detections
                   THEN SelectSeq(detections,
                                  LAMBDA d : d.detection_class = "TARGET")
                   ELSE << >>
        sent == [i \in 1..Len(targets) |->
                    MsgCommand(<< "TARGET_DETECTED", targets[i].direction,
                                  targets[i].distance >>)]
        r == get_navigation_impulse(nav1)
        current_idx == CHOOSE i \in 1..Len(patrol_positions) :
                           patrol_positions[i] = s.patrol_position
        next == patrol_positions[(current_idx % Len(patrol_positions)) + 1]
    IN  [s |-> IF is_at_target(r.nav, 0)
               THEN [s EXCEPT !.detections = detections,
                              !.patrol_position = next,
                              !.navigator = set_target(r.nav, next)]
               ELSE [s EXCEPT !.detections = detections,
                              !.navigator = r.nav],
         cmds |-> sent \o << ThrustCommand(r.impulse) >>]

InitController ==
    /\ NavInit
    /\ sensor \in { ControllerSensorUnit(id) : id \in { 1, 2 } }
    /\ strike = StrikeUnit
    /\ gen = [sensor |-> "created", strike |-> "created"]
    /\ last = [unit |-> "none", kind |-> "init", response |-> NoResponse,
               now |-> StartClock, aborted |-> FALSE, cmds |-> << >>,
               pre |-> StrikeUnit, afterMsg |-> StrikeUnit,
               atBranch |-> StrikeUnit]
    /\ clock = StartClock
    /\ iters = 0
    /\ trail = [from |-> 0, idx |-> << >>]
    /\ ArchIdle
    /\ LoopIdle
    /\ RadarIdle
    /\ NoOldTasks
    /\ RelayIdle

\* simulation_controller.py 152-166: the generator runs up to its first
\* yield
ControllerGeneratorStart ==
    /\ gen.sensor = "created"
    /\ gen' = [gen EXCEPT !.sensor = "loop"]
    /\ sensor' = [sensor EXCEPT
                     !.navigator = set_target(sensor.navigator,
                                              sensor.patrol_position)]
    /\ last' = [unit |-> "controller", kind |-> "start",
                response |-> NoResponse, now |-> clock, aborted |-> FALSE,
                cmds |-> InitialCommands, pre |-> sensor,
                afterMsg |-> sensor', atBranch |-> sensor']
    /\ UNCHANGED <<strike, clock, iters, trail>>
    /\ UNCHANGED <<restartVars, navVars, geoVars, relayVars, loopVars, radarVars>>

\* simulation_controller.py 93-97 and 168-225: process_response stores the
\* reported position and queues the response, the generator dequeues it
\* and runs one pass of its loop.  The unit is reported at the origin, on
\* its first or on its second patrol corner; it sees nothing, a target, an
\* obstacle, or two targets.
ControllerGenerate ==
    /\ gen.sensor = "loop"
    /\ iters < MaxIter
    /\ \E response \in
           { [pos |-> p, has_detections |-> d.has, detections |-> d.det,
              messages |-> << >>] :
                 p \in { <<0, 0>>, <<50, 50>>, <<-50, 50>> },
                 d \in { NoDetections, TargetNorth(12),
                         [has |-> TRUE,
                          det |-> [east |-> [class |-> 0, distance |-> 3]]],
                         [has |-> TRUE,
                          det |-> [north |-> [class |-> 1, distance |-> 12],
                                   south |-> [class |-> 1, distance |-> 7]]] } } :
         \E r \in { ControllerIteration(sensor, response) } :
             /\ sensor' = [r.s EXCEPT !.position = response.pos]
             /\ last' = [unit |-> "controller", kind |-> "iteration",
                         response |-> response, now |-> clock,
                         aborted |-> FALSE, cmds |-> r.cmds, pre |-> sensor,
                         afterMsg |-> r.s, atBranch |-> r.s]
    /\ iters' = iters + 1
    /\ UNCHANGED <<strike, gen, clock, trail>>
    /\ UNCHANGED <<restartVars, navVars, geoVars, relayVars, loopVars, radarVars>>

ControllerNext ==
    \/ ControllerGeneratorStart
    \/ ControllerGenerate

SpecController == InitController /\ [][ControllerNext]_vars

\* ------------------------------------------------------------------------
\* Sightings relayed between the units through the server
\* ------------------------------------------------------------------------
\* units.py 127-235: one pass of the sensor's loop.  The response carries
\* the unit's position, nothing or a target in sight, and no
\* message or any one Broadcast a unit has sent so far: the server may
\* deliver it late, more than once and in any order.
RelaySensorPass ==
    /\ gen.sensor = "loop"
    /\ iters < MaxRelayIter
    /\ \E pos \in { <<60, 59>> } :
       \E d \in { NoDetections, TargetNorth(12) } :
       \E m \in { << >> } \cup { << [has_value |-> TRUE,
                                      packed |-> "StringValue",
                                      text |-> text] >> : text \in aired } :
       \E response \in { [pos |-> pos, has_detections |-> d.has,
                          detections |-> d.det, messages |-> m] } :
       \E r \in { SensorIteration(sensor, response, clock) } :
           /\ sensor' = r.s
           /\ last' = [unit |-> "sensor", kind |-> "iteration",
                       response |-> response, now |-> clock,
                       aborted |-> r.aborted,
                       cmds |-> r.cmds, pre |-> sensor,
                       afterMsg |-> r.afterMsg, atBranch |-> r.atBranch]
           /\ aired' = aired \cup { r.cmds[i].text :
                                     i \in { j \in 1..Len(r.cmds) :
                                                r.cmds[j].type = "msg" } }
           /\ sighted' = IF \E i \in 1..Len(process_detections(d.det)) :
                                  process_detections(d.det)[i].detection_class
                                      = "TARGET"
                         THEN clock ELSE sighted
    /\ iters' = iters + 1
    /\ UNCHANGED <<strike, gen, clock, trail>>
    /\ UNCHANGED <<restartVars, navVars, geoVars, loopVars, radarVars>>

\* units.py 320-368: one pass of the strike unit's loop; the strike unit
\* has no detections of its own
RelayStrikePass ==
    /\ gen.strike = "loop"
    /\ iters < MaxRelayIter
    /\ \E pos \in { <<30, 40>> } :
       \E m \in { << >> } \cup { << [has_value |-> TRUE,
                                      packed |-> "StringValue",
                                      text |-> text] >> : text \in aired } :
       \E response \in { [pos |-> pos, has_detections |-> FALSE,
                          detections |-> << >>, messages |-> m] } :
       \E r \in { StrikeIteration(strike, response, clock) } :
           /\ strike' = r.s
           /\ last' = [unit |-> "strike", kind |-> "iteration",
                       response |-> response, now |-> clock,
                       aborted |-> r.aborted,
                       cmds |-> r.cmds, pre |-> strike,
                       afterMsg |-> r.afterMsg, atBranch |-> r.atBranch]
           /\ aired' = aired \cup { r.cmds[i].text :
                                     i \in { j \in 1..Len(r.cmds) :
                                                r.cmds[j].type = "msg" } }
    /\ iters' = iters + 1
    /\ UNCHANGED <<sensor, gen, clock, trail, sighted>>
    /\ UNCHANGED <<restartVars, navVars, geoVars, loopVars, radarVars>>

\* wall-clock time passes
RelayTick ==
    /\ clock < MaxRelayClock
    /\ clock' = clock + 1
    /\ UNCHANGED <<sensor, strike, gen, last, iters, trail>>
    /\ UNCHANGED <<restartVars, navVars, geoVars, relayVars, loopVars, radarVars>>

RelayNext ==
    \/ SensorGeneratorStart
    \/ StrikeGeneratorStart
    \/ RelaySensorPass
    \/ RelayStrikePass
    \/ RelayTick

SpecRelay == Init /\ [][RelayNext]_vars

\* ------------------------------------------------------------------------
\* The units' threads: start, stop, control loop and generator (units.py)
\* ------------------------------------------------------------------------
\* what the server sends to a unit: to the sensor its position with nothing
\* or a target in sight, to the strike unit its position with or without a
\* relayed sighting; to either, now and then, a message that is no sighting
LoopPayloads(u) ==
    IF u = "sensor"
    THEN { [pos |-> <<0, 0>>, has_detections |-> c.d.has,
            detections |-> c.d.det, messages |-> c.m] :
              c \in { [d |-> NoDetections, m |-> << >>],
                      [d |-> TargetNorth(12), m |-> << >>],
                      [d |-> TargetNorth(12), m |-> << JunkMsg >>] } }
    ELSE { [pos |-> <<0, 0>>, has_detections |-> FALSE,
            detections |-> << >>, messages |-> m] :
              m \in { << >>, << SightingMsg(3, 4, StartClock - 1) >>,
                      << ForeignMsg >> } }

\* the n-th response a unit's stream delivers
LoopResponses(u, n) ==
    { [seq |-> n, pos |-> c.pos, has_detections |-> c.has_detections,
       detections |-> c.detections, messages |-> c.messages] :
         c \in LoopPayloads(u) }

\* a plausible slip: a stack instead of a FIFO queue
response_queue_put_front(q, response) == << response >> \o q

\* a plausible slip: a queue of one slot filled with put_nowait, the
\* response lost when the slot is taken
response_queue_put_one_slot(q, response) ==
    IF q = << >> THEN Append(q, response) ELSE q

\* units.py 261 and 394: self.response_queue.put(response), queue.Queue
response_queue_put(q, response) == Append(q, response)

\* the commands yielded while the response numbered seq is processed
Tagged(cmds, seq) == [i \in 1..Len(cmds) |-> [seq |-> seq, cmd |-> cmds[i]]]

InitLoop ==
    /\ NavInit
    /\ UnitInit
    /\ ArchIdle
    /\ LoopIdle
    /\ RadarIdle
    /\ NoOldTasks
    /\ RelayIdle
    /\ sensor.unit_id = 1

\* units.py 77-83 and 291-297: start(), together with the thread's way to
\* the `for` statement (239-255).  Each unit is started once
\* (simulator.py 158, 169).
UnitStart(u) ==
    /\ thread[u] = "none"
    /\ rd[u] = "idle"
    /\ running' = [running EXCEPT ![u] = TRUE]
    /\ thread' = [thread EXCEPT ![u] = "set"]
    /\ rd' = [rd EXCEPT ![u] = "recv"]
    /\ UNCHANGED <<queue, recvd, taken, outbound>>
    /\ UNCHANGED <<restartVars, navVars, unitVars, geoVars, relayVars, radarVars>>

\* units.py 85-90 and 299-304: stop(); join(timeout=1.0) returns whether
\* or not the thread has finished
UnitStop(u) ==
    /\ running[u] \/ thread[u] = "set"
    /\ running' = [running EXCEPT ![u] = FALSE]
    /\ thread' = [thread EXCEPT ![u] = "none"]
    /\ UNCHANGED <<rd, queue, recvd, taken, outbound>>
    /\ UNCHANGED <<restartVars, navVars, unitVars, geoVars, relayVars, radarVars>>

\* units.py 258-261 and 391-394: the stream delivers a response; the
\* reader leaves the loop if running is False and enqueues it otherwise
ReaderReceive(u) ==
    /\ rd[u] = "recv"
    /\ recvd["sensor"] + recvd["strike"] < MaxResponses
    /\ \E response \in LoopResponses(u, recvd[u] + 1) :
         IF ~running[u]
         THEN /\ rd' = [rd EXCEPT ![u] = "stopped"]
              /\ UNCHANGED queue
         ELSE /\ queue' = [queue EXCEPT ![u] = response_queue_put(@, response)]
              /\ UNCHANGED rd
    /\ recvd' = [recvd EXCEPT ![u] = @ + 1]
    /\ UNCHANGED <<running, thread, taken, outbound>>
    /\ UNCHANGED <<restartVars, navVars, unitVars, geoVars, relayVars, radarVars>>

\* units.py 258-266 and 391-399: the stream is exhausted (the `for` ends)
\* or raises (caught at 263 / 396); the finally clause logs
ReaderStreamEnd(u) ==
    /\ rd[u] = "recv"
    /\ \E how \in { "ended", "failed" } : rd' = [rd EXCEPT ![u] = how]
    /\ UNCHANGED <<running, thread, queue, recvd, taken, outbound>>
    /\ UNCHANGED <<restartVars, navVars, unitVars, geoVars, relayVars, radarVars>>

\* units.py 116-125 and 306-318: the generator, handed to the stub at 255 /
\* 388, runs up to its first yield
GenStart(u) ==
    /\ gen[u] = "created"
    /\ rd[u] # "idle"
    /\ gen' = [gen EXCEPT ![u] = "test"]
    /\ strike' = IF u = "strike"
                 THEN [strike EXCEPT !.navigator = set_target(@, <<0, 0>>)]
                 ELSE strike
    /\ outbound' = [outbound EXCEPT ![u] = @ \o Tagged(InitialCommands, 0)]
    /\ UNCHANGED <<sensor, last, clock, iters, trail>>
    /\ UNCHANGED <<running, thread, rd, queue, recvd, taken>>
    /\ UNCHANGED <<restartVars, navVars, geoVars, relayVars, radarVars>>

\* units.py 127 and 320: while self.running
GenTest(u) ==
    /\ gen[u] = "test"
    /\ gen' = [gen EXCEPT ![u] = IF running[u] THEN "loop" ELSE "done"]
    /\ UNCHANGED <<sensor, strike, last, clock, iters, trail>>
    /\ UNCHANGED <<restartVars, navVars, geoVars, relayVars, loopVars, radarVars>>

\* radar.py 149-152: the units' generators run in threads of their own and
\* call draw_unit on the one Radar without a lock.  While another unit is
\* about to store its first key (its generator has a response to take and
\* has not drawn yet), the dict can grow under the loop of unit u's call,
\* which then raises RuntimeError (dictionary changed size during
\* iteration); otherwise the call returns.
DrawOutcomes(u) ==
    IF \E v \in Units \ {u} :
           /\ radar[v] = None
           /\ queue[v] # << >>
           /\ \/ gen[v] = "loop"
              \/ \E i \in 1..Len(old[v]) : old[v][i].gen = "loop"
    THEN { FALSE, TRUE }
    ELSE { FALSE }

\* a plausible slip: the try statement encloses the while loop, so that an
\* exception ends the generator
AfterPassOuterTry(aborted) == IF aborted THEN "done" ELSE "test"

\* units.py 234-235 and 367-368: the except clause is inside the while
\* loop; after a pass, cut short or not, control is back at the loop test
AfterPass(aborted) == "test"

\* units.py 128-235 and 321-368: the pass of unit u's loop over a response
UnitPass(u, response, raised) ==
    IF u = "sensor"
    THEN IF raised
         THEN SensorDrawRaised(sensor, response)
         ELSE SensorIteration(sensor, response, clock)
    ELSE IF raised
         THEN StrikeDrawRaised(strike, response)
         ELSE StrikeIteration(strike, response, clock)

\* units.py 128-235 and 321-368: response_queue.get() returns the oldest
\* response (it blocks while the queue is empty) and the pass runs
GenProcess(u) ==
    /\ gen[u] = "loop"
    /\ queue[u] # << >>
    /\ radar' = draw_unit(radar, u, Head(queue[u]).pos)
    /\ \E raised \in DrawOutcomes(u) :
         \E r \in { UnitPass(u, Head(queue[u]), raised) } :
             /\ sensor' = IF u = "sensor" THEN r.s ELSE sensor
             /\ strike' = IF u = "strike" THEN r.s ELSE strike
             /\ outbound' = [outbound EXCEPT
                                ![u] = @ \o Tagged(r.cmds, Head(queue[u]).seq)]
             /\ gen' = [gen EXCEPT ![u] = AfterPass(r.aborted)]
             /\ drew' = [drew EXCEPT ![u] =
                             [keys |-> UnitsItems(radar'), raised |-> raised]]
    /\ taken' = [taken EXCEPT ![u] = Append(@, Head(queue[u]).seq)]
    /\ queue' = [queue EXCEPT ![u] = Tail(@)]
    /\ UNCHANGED <<last, clock, iters, trail>>
    /\ UNCHANGED <<running, thread, rd, recvd>>
    /\ UNCHANGED <<restartVars, navVars, geoVars, relayVars>>

LoopNext ==
    \/ \E u \in Units : UnitStart(u)
    \/ \E u \in Units : UnitStop(u)
    \/ \E u \in Units : ReaderReceive(u)
    \/ \E u \in Units : ReaderStreamEnd(u)
    \/ \E u \in Units : GenStart(u)
    \/ \E u \in Units : GenTest(u)
    \/ \E u \in Units : GenProcess(u)

\* the threads of the units, stream and callers unconstrained
SpecLoop == InitLoop /\ [][LoopNext]_vars

\* units.py 130 and 323: response_queue.get() returns.  The steps of the
\* model that take the head off the queue of a generator standing at get()
\* are exactly the GenProcess steps.
GenDequeue(u) ==
    /\ gen[u] = "loop"
    /\ queue[u] # << >>
    /\ queue' = [queue EXCEPT ![u] = Tail(@)]

\* the same with the generators' thread scheduled fairly: a generator that
\* can take its next step takes it (for the pass over a response: a get()
\* that can return does return).  The reader is given no fairness, its
\* steps wait for the server; start() and stop() are up to the caller.
SpecLoopFair ==
    /\ SpecLoop
    /\ \A u \in Units :
          /\ WF_vars(GenStart(u))
          /\ WF_vars(GenTest(u))
          /\ WF_queue(GenDequeue(u))

\* ------------------------------------------------------------------------
\* start() after stop() (units.py)
\* ------------------------------------------------------------------------
\* units.py 77-83 and 291-297: start() once stop() has cleared self.thread.
\* stop() has waited at most 1.0 s for the old thread (join(timeout=1.0))
\* and dropped its reference, whether or not the thread had finished; the
\* new thread makes a stream and a generator of its own (252-255) on the
\* same unit object and the same response_queue.  The old reader and
\* generator stay where they are.
UnitRestart(u) ==
    /\ thread[u] = "none"
    /\ rd[u] # "idle"
    /\ Len(old[u]) < MaxStarts - 1
    /\ old' = [old EXCEPT ![u] = Append(@, [rd |-> rd[u], gen |-> gen[u],
                                             put |-> FALSE, got |-> FALSE])]
    /\ running' = [running EXCEPT ![u] = TRUE]
    /\ thread' = [thread EXCEPT ![u] = "set"]
    /\ rd' = [rd EXCEPT ![u] = "recv"]
    /\ gen' = [gen EXCEPT ![u] = "created"]
    /\ UNCHANGED <<sensor, strike, last, clock, iters, trail>>
    /\ UNCHANGED <<queue, recvd, taken, outbound>>
    /\ UNCHANGED <<navVars, geoVars, relayVars, radarVars>>

\* units.py 258-261 and 391-394, in a replaced thread: its stream delivers
\* a response; self.running and self.response_queue are the unit's
OldReaderReceive(u) ==
    /\ recvd["sensor"] + recvd["strike"] < MaxResponses
    /\ \E i \in 1..Len(old[u]) :
         /\ old[u][i].rd = "recv"
         /\ \E response \in LoopResponses(u, recvd[u] + 1) :
              IF ~running[u]
              THEN /\ old' = [old EXCEPT ![u][i].rd = "stopped"]
                   /\ UNCHANGED queue
              ELSE /\ queue' = [queue EXCEPT
                                   ![u] = response_queue_put(@, response)]
                   /\ old' = [old EXCEPT ![u][i].put = TRUE]
    /\ recvd' = [recvd EXCEPT ![u] = @ + 1]
    /\ UNCHANGED <<running, thread, rd, taken, outbound>>
    /\ UNCHANGED <<navVars, unitVars, geoVars, relayVars, radarVars>>

\* units.py 258-266 and 391-399, in a replaced thread
OldReaderStreamEnd(u) ==
    /\ \E i \in 1..Len(old[u]) :
         /\ old[u][i].rd = "recv"
         /\ \E how \in { "ended", "failed" } :
                old' = [old EXCEPT ![u][i].rd = how]
    /\ UNCHANGED <<navVars, unitVars, geoVars, relayVars, loopVars, radarVars>>

\* units.py 116-125 and 306-318, the generator of a replaced thread
OldGenStart(u) ==
    /\ \E i \in 1..Len(old[u]) :
         /\ old[u][i].gen = "created"
         /\ old' = [old EXCEPT ![u][i].gen = "test"]
    /\ strike' = IF u = "strike"
                 THEN [strike EXCEPT !.navigator = set_target(@, <<0, 0>>)]
                 ELSE strike
    /\ outbound' = [outbound EXCEPT ![u] = @ \o Tagged(InitialCommands, 0)]
    /\ UNCHANGED <<sensor, gen, last, clock, iters, trail>>
    /\ UNCHANGED <<running, thread, rd, queue, recvd, taken>>
    /\ UNCHANGED <<navVars, geoVars, relayVars, radarVars>>

\* units.py 127 and 320, the generator of a replaced thread
OldGenTest(u) ==
    /\ \E i \in 1..Len(old[u]) :
         /\ old[u][i].gen = "test"
         /\ old' = [old EXCEPT ![u][i].gen =
                                   IF running[u] THEN "loop" ELSE "done"]
    /\ UNCHANGED <<navVars, unitVars, geoVars, relayVars, loopVars, radarVars>>

\* units.py 128-235 and 321-368, the generator of a replaced thread:
\* self.response_queue.get() hands it the oldest response
OldGenProcess(u) ==
    /\ queue[u] # << >>
    /\ radar' = draw_unit(radar, u, Head(queue[u]).pos)
    /\ \E i \in 1..Len(old[u]) :
         /\ old[u][i].gen = "loop"
         /\ \E raised \in DrawOutcomes(u) :
              \E r \in { UnitPass(u, Head(queue[u]), raised) } :
                 /\ sensor' = IF u = "sensor" THEN r.s ELSE sensor
                 /\ strike' = IF u = "strike" THEN r.s ELSE strike
                 /\ outbound' = [outbound EXCEPT
                        ![u] = @ \o Tagged(r.cmds, Head(queue[u]).seq)]
                 /\ old' = [old EXCEPT ![u][i].gen = AfterPass(r.aborted),
                                       ![u][i].got = TRUE]
                 /\ drew' = [drew EXCEPT ![u] =
                                 [keys |-> UnitsItems(radar'), raised |-> raised]]
    /\ taken' = [taken EXCEPT ![u] = Append(@, Head(queue[u]).seq)]
    /\ queue' = [queue EXCEPT ![u] = Tail(@)]
    /\ UNCHANGED <<gen, last, clock, iters, trail>>
    /\ UNCHANGED <<running, thread, rd, recvd>>
    /\ UNCHANGED <<navVars, geoVars, relayVars>>

\* units.py 77-83 and 291-297: the first start() of a unit, the other units
\* not started (the calls are followed on one unit at a time)
UnitStartAlone(u) ==
    /\ \A v \in Units \ {u} : rd[v] = "idle"
    /\ UnitStart(u)

RestartNext ==
    \/ \E u \in Units : UnitStartAlone(u)
    \/ \E u \in Units : UnitStop(u)
    \/ \E u \in Units : ReaderReceive(u)
    \/ \E u \in Units : ReaderStreamEnd(u)
    \/ \E u \in Units : GenStart(u)
    \/ \E u \in Units : GenTest(u)
    \/ \E u \in Units : GenProcess(u)
    \/ \E u \in Units : UnitRestart(u)
    \/ \E u \in Units : OldReaderReceive(u)
    \/ \E u \in Units : OldReaderStreamEnd(u)
    \/ \E u \in Units : OldGenStart(u)
    \/ \E u \in Units : OldGenTest(u)
    \/ \E u \in Units : OldGenProcess(u)

\* the threads of the units with callers that start a stopped unit again
SpecRestart == InitLoop /\ [][RestartNext]_vars

\* one unit followed from its start() on, the other units not started
QueueNext ==
    \/ \E u \in Units : UnitStartAlone(u)
    \/ \E u \in Units : UnitStop(u)
    \/ \E u \in Units : ReaderReceive(u)
    \/ \E u \in Units : ReaderStreamEnd(u)
    \/ \E u \in Units : GenStart(u)
    \/ \E u \in Units : GenTest(u)
    \/ \E u \in Units : GenProcess(u)

\* the reader and the generator of one unit, the generator's thread
\* scheduled fairly as in SpecLoopFair
SpecQueueFair ==
    /\ InitLoop
    /\ [][QueueNext]_vars
    /\ \A u \in Units :
          /\ WF_vars(GenStart(u))
          /\ WF_vars(GenTest(u))
          /\ WF_queue(GenDequeue(u))

\* ------------------------------------------------------------------------
\* get_arch_centre applied to given arguments (utils.py)
\* ------------------------------------------------------------------------
\* the keys of the directions table
Directions == { DirectionOrder[i] : i \in 1..Len(DirectionOrder) }

\* own coordinates handed to get_arch_centre
ArchCoords == { -3, 0, 7 }

\* the arguments of a call, the result not yet computed
InitArch ==
    /\ NavInit
    /\ UnitInit
    /\ LoopIdle
    /\ RadarIdle
    /\ NoOldTasks
    /\ RelayIdle
    /\ sensor.unit_id = 1
    /\ arch \in { [direction |-> direction, distance |-> distance,
                   x |-> x, y |-> y, out |-> None] :
                     direction \in Directions, distance \in 0..MaxDistance,
                     x \in ArchCoords, y \in ArchCoords }

\* utils.py 7-21: the call returns
ArchCall ==
    /\ arch.out = None
    /\ arch' = [arch EXCEPT !.out = get_arch_centre(arch.direction,
                                        arch.distance, arch.x, arch.y)]
    /\ UNCHANGED <<restartVars, navVars, unitVars, loopVars, radarVars, relayVars>>

ArchNext == ArchCall

SpecArch == InitArch /\ [][ArchNext]_vars

\* ------------------------------------------------------------------------
\* Properties of the navigator (checked under SpecNav)
\* ------------------------------------------------------------------------
RECURSIVE SumAxis(_, _)
\* sum of the errors of one axis (1 = x, 2 = y) in a sequence of (dx, dy)
SumAxis(errs, axis) ==
    IF errs = << >> THEN 0
    ELSE errs[1][axis] + SumAxis(Tail(errs), axis)

LastAxis(errs, axis) ==
    IF errs = << >> THEN 0 ELSE errs[Len(errs)][axis]

\* C7: every vector returned by get_navigation_impulse has magnitude at
\* most max_impulse (10.0), in the arrival branch as well as in the PID
\* branch.
C7_ImpulseWithinMax ==
    navOp.op = "get_navigation_impulse"
        => ~ExceedsMax(navOp.impulse[1], navOp.impulse[2])

\* C8: when the distance from the last position to the target is below
\* arrival_threshold, get_navigation_impulse returns exactly the negated
\* velocity estimate, whatever the controller memory, and leaves that
\* memory unchanged.
C8_ArrivalReturnsNegatedVelocity ==
    (navOp.op = "get_navigation_impulse" /\ Arrived(navOp.before))
        => /\ navOp.impulse = << -(navOp.before.estimated_velocity[1] * Q),
                                 -(navOp.before.estimated_velocity[2] * Q) >>
           /\ nav.pid_x = navOp.before.pid_x
           /\ nav.pid_y = navOp.before.pid_y

\* the arrival branch ran with a moving unit and non-trivial PID memory
C8_Witness ==
    /\ navOp.op = "get_navigation_impulse"
    /\ Arrived(navOp.before)
    /\ navOp.before.estimated_velocity # <<0, 0>>
    /\ navOp.before.pid_x.integral # 0
    /\ navOp.before.pid_x.prev_error # 0

\* C9: set_target with a value different from the current target replaces
\* the target and zeroes integral and prev_error of both axis controllers;
\* hence in every state the controller memory is exactly what the compute
\* calls made since the active target was set have left.
C9_TargetChangeResetsControllers ==
    /\ (navOp.op = "set_target" /\ navOp.arg # navOp.before.target_pos)
          => /\ nav.target_pos = navOp.arg
             /\ nav.pid_x = [prev_error |-> 0, integral |-> 0]
             /\ nav.pid_y = [prev_error |-> 0, integral |-> 0]
    /\ nav.pid_x.integral = SumAxis(navSince, 1)
    /\ nav.pid_y.integral = SumAxis(navSince, 2)
    /\ nav.pid_x.prev_error = LastAxis(navSince, 1)
    /\ nav.pid_y.prev_error = LastAxis(navSince, 2)

\* a target change wiped memory that an earlier target had built up
C9_Witness ==
    /\ navOp.op = "set_target"
    /\ navOp.arg # navOp.before.target_pos
    /\ navOp.before.pid_x.integral # 0
    /\ navOp.before.pid_y.prev_error # 0

\* C10: set_target called with the current target changes nothing: target,
\* both controllers' integral and prev_error, last position and velocity
\* estimate are as before the call.
C10_SameTargetIsNoOp ==
    (navOp.op = "set_target" /\ navOp.arg = navOp.before.target_pos)
        => nav = navOp.before

\* the unchanged target was re-set while the controllers held memory
C10_Witness ==
    /\ navOp.op = "set_target"
    /\ navOp.arg = navOp.before.target_pos
    /\ navOp.before.pid_x.integral # 0
    /\ navOp.before.estimated_velocity # <<0, 0>>

\* C11: update_position(p) always stores p as the last position; with a
\* prior position q the velocity estimate becomes ((p.x - q.x) * 250,
\* (p.y - q.y) * 250), hence (0,0) when p = q; on the first call (no prior
\* position) the estimate keeps its initial value (0,0).
C11_UpdatePositionStoresAndEstimates ==
    navOp.op = "update_position"
        => /\ nav.last_pos = navOp.arg
           /\ IF navOp.before.last_pos = << >>
              THEN /\ nav.estimated_velocity = navOp.before.estimated_velocity
                   /\ nav.estimated_velocity = <<0, 0>>
              ELSE nav.estimated_velocity =
                       << (navOp.arg[1] - navOp.before.last_pos[1]) * 250,
                          (navOp.arg[2] - navOp.before.last_pos[2]) * 250 >>
           /\ (navOp.before.last_pos = navOp.arg
                 => nav.estimated_velocity = <<0, 0>>)

\* a moving unit reported a new position: the earlier non-zero estimate was
\* replaced by the scaled difference to the prior position
C11_Witness ==
    /\ navOp.op = "update_position"
    /\ navOp.before.last_pos # << >>
    /\ navOp.before.last_pos # navOp.arg
    /\ navOp.before.estimated_velocity # <<0, 0>>
    /\ nav.estimated_velocity # navOp.before.estimated_velocity
    /\ nav.last_pos = navOp.arg

\* ------------------------------------------------------------------------
\* Properties of get_arch_centre (checked under SpecArch)
\* ------------------------------------------------------------------------
\* c is distance * sqrt(2)/2 rounded to the nearest whole unit:
\* |2c - sqrt(2) * distance| <= 1, decided on the squares
HalfSqrtTwoTimes(distance, c) ==
    /\ c >= 0
    /\ 2 * distance * distance <= (2 * c + 1) * (2 * c + 1)
    /\ (c = 0 \/ (2 * c - 1) * (2 * c - 1) <= 2 * distance * distance)

\* C12: for each of the eight compass directions get_arch_centre returns
\* (x + ux * distance, y + uy * distance), (ux, uy) being the direction's
\* unit vector: north (0,1), east (1,0), south (0,-1), west (-1,0), and the
\* diagonals with components +-sqrt(2)/2; the result depends on the four
\* arguments only.
C12_ArchCentreIsOffsetAlongDirection ==
    arch.out # << >>
        => LET d  == arch.distance
               ox == arch.out[1] - arch.x
               oy == arch.out[2] - arch.y
           IN  CASE arch.direction = "north"     -> ox = 0 /\ oy = d
                 [] arch.direction = "east"      -> ox = d /\ oy = 0
                 [] arch.direction = "south"     -> ox = 0 /\ oy = -d
                 [] arch.direction = "west"      -> ox = -d /\ oy = 0
                 [] arch.direction = "northeast" ->
                        ox = oy /\ HalfSqrtTwoTimes(d, ox)
                 [] arch.direction = "northwest" ->
                        ox = -oy /\ HalfSqrtTwoTimes(d, oy)
                 [] arch.direction = "southeast" ->
                        oy = -ox /\ HalfSqrtTwoTimes(d, ox)
                 [] arch.direction = "southwest" ->
                        ox = oy /\ HalfSqrtTwoTimes(d, -ox)

\* a southwest detection at distance 10 or more from an off-origin unit
C12_Witness ==
    /\ arch.out # << >>
    /\ arch.direction = "southwest"
    /\ arch.distance >= 10
    /\ arch.x # 0
    /\ arch.out[1] < arch.x - 6
    /\ arch.out[2] < arch.y - 6

\* ------------------------------------------------------------------------
\* the last step was a pass of unit u's loop over a dequeued response
Iterated(u) == last.unit = u /\ last.kind = "iteration"

CountType(cmds, type) ==
    Cardinality({ i \in 1..Len(cmds) : cmds[i].type = type })

\* the samples of the last response, in compass order, that are handled as
\* targets
LastTargets ==
    SelectSeq(IF last.response.has_detections
              THEN process_detections(last.response.detections)
              ELSE << >>,
              LAMBDA d : d.detection_class = "TARGET")

\* the last response holds a sample of class TARGET
HasTargetSample ==
    /\ last.response.has_detections
    /\ \E direction \in DOMAIN last.response.detections :
           last.response.detections[direction].class = 1

\* world position of the i-th target sample of the last response
ResolvedTarget(i) ==
    get_arch_centre(LastTargets[i].direction, LastTargets[i].distance,
                    last.response.pos[1], last.response.pos[2])

\* what the decoder handed back for the last response
LastDecoded == get_arch_x_arch_y_from_message(last.response)

\* the sighting decoded from the last response is younger than 1.0 s
LastFresh == last.now - LastDecoded.timestamp < 2

\* the current patrol waypoint of the sensor unit
Waypoint(s) ==
    << patrol_positions[s.unit_id][1] + subpatrol_positions[s.subpatrol_idx + 1][1],
       patrol_positions[s.unit_id][2] + subpatrol_positions[s.subpatrol_idx + 1][2] >>

C2_AttackArrivalReturnsToPatrol ==
    (/\ Iterated("sensor")
     /\ ~last.aborted
     /\ last.atBranch.state = "ATTACK"
     /\ DistLess(last.atBranch.position, last.atBranch.navigator.target_pos,
                 10 * Q))
        => /\ sensor.state = "PATROL"
           /\ sensor.navigator.target_pos = Waypoint(sensor)
           /\ sensor.subpatrol_idx = last.pre.subpatrol_idx

\* a unit that entered Attack in an earlier iteration came within 10.0
C2_Witness ==
    /\ Iterated("sensor")
    /\ ~last.aborted
    /\ last.pre.state = "ATTACK"
    /\ last.atBranch.state = "ATTACK"
    /\ DistLess(last.atBranch.position, last.atBranch.navigator.target_pos,
                10 * Q)
    /\ sensor.state = "PATROL"

\* C3: a sensor unit in Patrol that dequeues a response with a decodable
\* sighting younger than 1.0 s takes the Patrol-to-Attack trigger, for
\* every sighting position, a coordinate of exactly 0 included.
C3_FreshSightingTriggersAttack ==
    (/\ Iterated("sensor")
     /\ last.pre.state = "PATROL"
     /\ LastDecoded.found
     /\ LastFresh)
        => /\ last.afterMsg.state = "ATTACK"
           /\ last.afterMsg.target_position # None
           /\ last.afterMsg.navigator.target_pos = last.afterMsg.target_position

\* a Broadcast carrying the received sighting was emitted
Relayed ==
    \E i \in 1..Len(last.cmds) :
        /\ last.cmds[i].type = "msg"
        /\ last.cmds[i].text = << Num(LastDecoded.x), Num(LastDecoded.y),
                                  Num(LastDecoded.timestamp) >>

\* C4: a received sighting of age >= 1.0 s is not acted on by either unit
\* (no change of state, attack target or navigation target because of it,
\* no Broadcast for it); a sighting younger than 1.0 s is accepted.
\* (MessageStepIdle: the message step left state, attack target and
\* navigation target alone; the strike unit's own arrival rule may still
\* re-target the origin.)
C4_StaleIgnoredFreshAccepted ==
    LET MessageStepIdle ==
            /\ last.afterMsg.target_position = last.pre.target_position
            /\ IF last.unit = "sensor"
               THEN /\ last.afterMsg.state = last.pre.state
                    /\ last.afterMsg.navigator.target_pos
                           = last.pre.navigator.target_pos
               ELSE last.afterMsg.navigator.target_pos
                        \in { last.pre.navigator.target_pos, <<0, 0>> }
    IN  ((Iterated("sensor") \/ Iterated("strike")) /\ LastDecoded.found)
            => IF LastFresh
               THEN /\ last.afterMsg.target_position # None
                    /\ last.afterMsg.navigator.target_pos
                           = last.afterMsg.target_position
                    /\ Relayed
               ELSE MessageStepIdle /\ ~Relayed

\* the payloads broadcast in the last iteration, one per logical broadcast:
\* the relayed sighting if one was accepted, then the sensor's own targets
LogicalBroadcasts ==
    (IF LastDecoded.found /\ LastDecoded.x # 0 /\ LastDecoded.y # 0 /\ LastFresh
     THEN << << Num(LastDecoded.x), Num(LastDecoded.y),
                Num(LastDecoded.timestamp) >> >>
     ELSE << >>)
    \o (IF last.unit = "sensor"
        THEN [i \in 1..Len(LastTargets) |->
                 << Num(ResolvedTarget(i)[1]), Num(ResolvedTarget(i)[2]),
                    Num(last.now) >>]
        ELSE << >>)

\* C5: every logical sighting broadcast, own detection or relay, is emitted
\* as exactly 3 consecutive Broadcast commands with identical payload in
\* the same iteration, nothing interleaved.
C5_BroadcastsInTriples ==
    ((Iterated("sensor") \/ Iterated("strike")) /\ ~last.aborted)
        => /\ CountType(last.cmds, "msg") = 3 * Len(LogicalBroadcasts)
           /\ \A i \in 1..(3 * Len(LogicalBroadcasts)) :
                 /\ i <= Len(last.cmds)
                 /\ last.cmds[i].type = "msg"
                 /\ last.cmds[i].text = LogicalBroadcasts[((i - 1) \div 3) + 1]

\* one iteration carried two logical broadcasts: a relay and an own target
C5_Witness ==
    /\ Iterated("sensor")
    /\ ~last.aborted
    /\ Len(LogicalBroadcasts) = 2
    /\ LogicalBroadcasts[1] # LogicalBroadcasts[2]
    /\ CountType(last.cmds, "msg") = 6

\* C13: in every iteration whose state branch runs with the sensor unit in
\* Patrol and nearer than 2.5 to its navigation target, the waypoint index
\* advances from idx to (idx + 1) mod 4 and the navigation target becomes
\* the home corner plus the offset of the new index; consecutive arrivals
\* visit the indexes in cyclic order, four of them from index 0 visit
\* 1, 2, 3 and return to 0.
C13_PatrolArrivalAdvancesWaypoint ==
    /\ (/\ Iterated("sensor")
        /\ ~last.aborted
        /\ last.atBranch.state = "PATROL"
        /\ DistLess(last.atBranch.position,
                    last.atBranch.navigator.target_pos, (25 * Q) \div 10))
          => /\ sensor.subpatrol_idx = (last.pre.subpatrol_idx + 1) % 4
             /\ sensor.navigator.target_pos = Waypoint(sensor)
             /\ sensor.state = "PATROL"
             /\ trail.idx # << >>
    /\ \A i \in 1..Len(trail.idx) : trail.idx[i] = (trail.from + i) % 4
    /\ (trail.from = 0 /\ Len(trail.idx) >= 4)
          => SubSeq(trail.idx, 1, 4) = <<1, 2, 3, 0>>

\* four consecutive arrivals from index 0 brought the unit round its square
C13_Witness ==
    /\ Iterated("sensor")
    /\ trail.from = 0
    /\ Len(trail.idx) = 4
    /\ sensor.subpatrol_idx = 0
    /\ last.pre.subpatrol_idx = 3
    /\ sensor.navigator.target_pos = <<60, 60>>

\* C14: the waypoint index of a sensor unit is always in {0,1,2,3}; every
\* change of it is a step from idx to (idx + 1) mod 4, at most one per
\* iteration; it does not change in an iteration whose state branch is the
\* Attack handling.
C14_WaypointIndexStepsForward ==
    /\ [](/\ sensor.subpatrol_idx \in {0, 1, 2, 3}
          /\ (Iterated("sensor") /\ last.atBranch.state = "ATTACK")
                => sensor.subpatrol_idx = last.pre.subpatrol_idx)
    /\ [][sensor'.subpatrol_idx \in
             { sensor.subpatrol_idx, (sensor.subpatrol_idx + 1) % 4 }]_vars

\* Attack handling returned a unit to Patrol that had moved on from its
\* first waypoint: the index was kept
C14_Witness ==
    /\ Iterated("sensor")
    /\ ~last.aborted
    /\ last.atBranch.state = "ATTACK"
    /\ sensor.state = "PATROL"
    /\ last.pre.subpatrol_idx # 0
    /\ sensor.subpatrol_idx = last.pre.subpatrol_idx

\* C15: the first command a unit's generator yields is a Thrust with
\* impulse (0,0), and it is yielded before any response has been dequeued,
\* for the sensor and the strike unit alike.
C15_FirstCommandIsZeroThrust ==
    \A u \in Units :
        /\ outbound[u] # << >>
              => outbound[u][1] =
                     [seq |-> 0,
                      cmd |-> [type |-> "thrust", impulse |-> <<0, 0>>,
                               text |-> << >>]]
        /\ taken[u] # << >> => outbound[u] # << >>
        /\ gen[u] # "created" => outbound[u] # << >>

\* both units have gone on to process a response after their first command
C15_Witness ==
    /\ taken["sensor"] # << >>
    /\ taken["strike"] # << >>
    /\ Len(outbound["sensor"]) > 1
    /\ Len(outbound["strike"]) > 1

\* C16: a newly constructed sensor unit, before it has processed any
\* response, is in Patrol with waypoint index 0, and its navigation target
\* is its first patrol waypoint: the home corner of its unit id plus the
\* first offset (10,10).
C16_NewSensorPatrolsFirstWaypoint ==
    /\ gen.sensor = "created"
          => /\ sensor.state = "PATROL"
             /\ sensor.subpatrol_idx = 0
             /\ sensor.target_position = << >>
             /\ sensor.navigator.target_pos =
                    IF sensor.unit_id = 1 THEN <<60, 60>> ELSE <<-40, -40>>
    /\ \A id \in 1..4 : \A p \in SensorPositions :
          LET corner == << <<50, 50>>, <<-50, 50>>, <<-50, -50>>, <<50, -50>> >>
              s == SensorUnit(id, p)
          IN  /\ s.state = "PATROL"
              /\ s.subpatrol_idx = 0
              /\ s.navigator.target_pos =
                     << corner[id][1] + 10, corner[id][2] + 10 >>

\* sensor 3 is still as constructed while the strike unit is at work
C16_Witness ==
    /\ gen.sensor = "created"
    /\ sensor.unit_id = 3
    /\ sensor.navigator.target_pos = <<-40, -40>>
    /\ Iterated("strike")

\* C17: a unit's generator processes the responses in exactly the order in
\* which its reader received them from the stream (the n-th received is
\* the n-th processed, as far as processed), and every command yielded for
\* an earlier response precedes every command yielded for a later one.
C17_ResponsesProcessedInArrivalOrder ==
    \A u \in Units :
        /\ \A i \in 1..Len(taken[u]) : taken[u][i] = i
        /\ \A i \in 1..Len(queue[u]) : queue[u][i].seq = Len(taken[u]) + i
        /\ \A i \in 1..Len(outbound[u]) : \A j \in 1..Len(outbound[u]) :
               i < j => outbound[u][i].seq <= outbound[u][j].seq

\* the sensor's generator processed two responses and yielded commands for
\* each, those for the first before those for the second
C17_Witness ==
    /\ taken["sensor"] = <<1, 2>>
    /\ \E i \in 1..Len(outbound["sensor"]) : outbound["sensor"][i].seq = 1
    /\ \E i \in 1..Len(outbound["sensor"]) : outbound["sensor"][i].seq = 2
    /\ outbound["sensor"][Len(outbound["sensor"])].seq = 2

\* the reader of unit u has left _control_loop and its generator has
\* returned
Terminated(u) ==
    /\ rd[u] \in { "stopped", "ended", "failed" }
    /\ gen[u] = "done"

\* C18: once stop() has set the running flag of a started unit to false,
\* the reader and the generator of that unit both eventually terminate, in
\* every execution, whether or not the server sends further responses.
C18_StopTerminatesBothTasks ==
    /\ (rd["sensor"] # "idle" /\ ~running["sensor"]) ~> Terminated("sensor")
    /\ (rd["strike"] # "idle" /\ ~running["strike"]) ~> Terminated("strike")

\* C19: when a unit's response stream has ended or raised a transport
\* error, the unit's control loop has exited and the unit is marked
\* stopped: its running flag is false.
C19_StreamEndMarksUnitStopped ==
    \A u \in Units :
        rd[u] \in { "ended", "failed" } => ~running[u]

\* the payload of msg cannot be decoded into three floats: the envelope
\* does not unwrap to a string, or the text is not three numeric tokens
Undecodable(msg) ==
    \/ msg.packed # "StringValue"
    \/ Len(msg.text) # 3
    \/ \E k \in 1..Len(msg.text) : ~msg.text[k].num

\* the last pass, had the response carried no message
LastPassWithoutMessage ==
    IF last.unit = "sensor"
    THEN SensorIteration(last.pre, [last.response EXCEPT !.messages = << >>],
                         last.now)
    ELSE StrikeIteration(last.pre, [last.response EXCEPT !.messages = << >>],
                         last.now)

\* C20: when a response carries a message whose payload cannot be decoded
\* into three floats, the decoder hands back the empty result instead of
\* raising and the iteration proceeds exactly as if the response carried
\* no message: detections evaluated, state branch run, Thrust emitted.
\* (LastUndecodable: the message the decoder looks at in the last response
\* is undecodable.)
C20_UndecodablePayloadReadsAsNoMessage ==
    LET LastUndecodable ==
            \E i \in 1..Len(last.response.messages) :
                /\ i = FirstValued(last.response.messages, 1)
                /\ Undecodable(last.response.messages[i])
    IN  ((Iterated("sensor") \/ Iterated("strike")) /\ LastUndecodable)
            => /\ ~LastDecoded.raised
               /\ ~LastDecoded.found
               /\ ~last.aborted
               /\ last.cmds = LastPassWithoutMessage.cmds
               /\ CountType(last.cmds, "thrust") = 1
               /\ (IF last.unit = "sensor" THEN sensor ELSE strike)
                      = LastPassWithoutMessage.s

\* C21: a malformed or foreign message never terminates a unit's generator.
\* The pass over a response with an undecodable payload leaves the
\* generator in its loop (back at the loop test, not returned) with the
\* behavior state, navigation target, attack target and waypoint index as
\* before that response; and every pass over a response without such a
\* payload, after an undecodable one or not, ends with one Thrust command
\* (unless the radar call of that pass raised).
\* (Dequeues(u): the generator of unit u takes the oldest response off its
\* queue; HeadUndecodable(u): that response carries an undecodable message
\* where the decoder looks.)
C21_UndecodableMessageKeepsGeneratorAlive ==
    [][\A u \in Units :
          LET Dequeues ==
                  /\ gen[u] = "loop"
                  /\ queue[u] # << >>
                  /\ taken'[u] # taken[u]
              HeadUndecodable ==
                  \E i \in 1..Len(Head(queue[u]).messages) :
                      /\ i = FirstValued(Head(queue[u]).messages, 1)
                      /\ Undecodable(Head(queue[u]).messages[i])
          IN  /\ (Dequeues /\ HeadUndecodable)
                    => /\ gen'[u] = "test"
                       /\ sensor'.state = sensor.state
                       /\ sensor'.subpatrol_idx = sensor.subpatrol_idx
                       /\ sensor'.navigator.target_pos
                              = sensor.navigator.target_pos
                       /\ sensor'.target_position = sensor.target_position
                       /\ strike'.navigator.target_pos
                              = strike.navigator.target_pos
                       /\ strike'.target_position = strike.target_position
              /\ (Dequeues /\ ~HeadUndecodable /\ ~drew'[u].raised)
                    => /\ gen'[u] = "test"
                       /\ Len(outbound'[u]) > Len(outbound[u])
                       /\ outbound'[u][Len(outbound'[u])].seq
                              = Head(queue[u]).seq
                       /\ outbound'[u][Len(outbound'[u])].cmd.type
                              = "thrust"]_vars

\* the sensor's generator went on after an undecodable first response:
\* nothing was yielded for it, the second response brought the unit into
\* Attack and ended with its Thrust, and the generator is back at get()
C21_Witness ==
    /\ taken["sensor"] = <<1, 2>>
    /\ SelectSeq(outbound["sensor"], LAMBDA c : c.seq = 1) = << >>
    /\ SelectSeq(outbound["sensor"], LAMBDA c : c.seq = 2) # << >>
    /\ outbound["sensor"][Len(outbound["sensor"])].cmd.type = "thrust"
    /\ sensor.state = "ATTACK"
    /\ gen["sensor"] = "loop"

\* C22: a detection sample whose class is neither OBSTACLE (0) nor TARGET
\* (1) is treated as absence of a detection: it causes no Patrol-to-Attack
\* transition, no change of navigation target and no Broadcast, and nothing
\* is raised.
\* (Checked on responses that hold a sample of a class other than 0 and 1,
\* no sample of class 1 and no message.)
C22_UnknownClassIsNoDetection ==
    (/\ Iterated("sensor")
     /\ last.response.has_detections
     /\ \E direction \in DOMAIN last.response.detections :
            last.response.detections[direction].class \notin {0, 1}
     /\ \A direction \in DOMAIN last.response.detections :
            last.response.detections[direction].class # 1
     /\ last.response.messages = << >>)
        => /\ ~last.aborted
           /\ last.atBranch.state = last.pre.state
           /\ last.atBranch.target_position = last.pre.target_position
           /\ last.atBranch.navigator.target_pos = last.pre.navigator.target_pos
           /\ CountType(last.cmds, "msg") = 0

\* C23: receiving the same sighting payload a second time while it is
\* still fresh changes nothing beyond re-confirming the same target: after
\* the pass over the duplicate the behavior state and navigation target are
\* as after the pass over the first copy, and the duplicate does not reset
\* the axis controllers.
\* (AcceptedSightingOnly: the sensor's last pass accepted the sighting of its
\* response (found, both coordinates truthy, younger than 1.0 s) and the
\* response held nothing else; DuplicatePass: the step is the sensor's pass
\* over a second copy of that response, same reported position and same
\* sighting, still fresh.)
C23_DuplicateSightingIsIdempotent ==
    [][LET AcceptedSightingOnly ==
               /\ Iterated("sensor")
               /\ ~last.aborted
               /\ ~last.response.has_detections
               /\ BothTruthy(LastDecoded)
               /\ LastFresh
           DuplicatePass ==
               /\ iters' = iters + 1
               /\ last'.unit = "sensor"
               /\ last'.response = last.response
               /\ last'.now - LastDecoded.timestamp < FRESH_WINDOW
       IN  (AcceptedSightingOnly /\ DuplicatePass)
              => /\ sensor'.state = sensor.state
                 /\ sensor'.navigator.target_pos = sensor.navigator.target_pos
                 /\ last'.afterMsg.navigator.pid_x = sensor.navigator.pid_x
                 /\ last'.afterMsg.navigator.pid_y = sensor.navigator.pid_y]_vars

\* C24: no mutable object is shared between units: nothing written by one
\* unit's reader or generator is read or written by another unit's tasks
\* (a unit's draw call goes over no entry but its own and is never cut
\* short by another unit's write); units influence one another only through
\* Broadcast commands relayed by the server.
C24_NoSharedMutableObject ==
    \A u \in Units :
        /\ drew[u].keys \subseteq {u}
        /\ ~drew[u].raised

\* C25: after any sequence of start() and stop() calls on a unit (stop()
\* returning after its join timeout with the old tasks still blocked,
\* followed by start(), included), at most one reader puts onto the unit's
\* queue and at most one generator dequeues from it and mutates the unit:
\* the tasks of a replaced thread no longer put or take.
C25_OneReaderOneGeneratorPerUnit ==
    \A u \in Units : \A i \in 1..Len(old[u]) :
        ~old[u][i].put /\ ~old[u][i].got

\* C26: when a response carries several messages, a fresh decodable
\* sighting in any one of them, not only in the first message that has a
\* value, triggers the Patrol-to-Attack transition and the target update;
\* a stale first message does not hide a fresh sighting that follows it.
\* (FreshSightingAt(i): the i-th message of the last response is a decodable
\* sighting younger than 1.0 s, off both axes.)
C26_FreshSightingInAnyMessage ==
    LET FreshSightingAt(i) ==
            LET msg == last.response.messages[i]
            IN  /\ msg.has_value
                /\ ~Undecodable(msg)
                /\ msg.text[1].val # 0
                /\ msg.text[2].val # 0
                /\ last.now - msg.text[3].val < FRESH_WINDOW
    IN  (/\ Iterated("sensor")
         /\ ~last.aborted
         /\ last.pre.state = "PATROL"
         /\ \E i \in 1..Len(last.response.messages) : FreshSightingAt(i))
            => /\ last.afterMsg.state = "ATTACK"
               /\ last.afterMsg.target_position # None
               /\ last.afterMsg.navigator.target_pos
                      = last.afterMsg.target_position

\* C27: when a sensor unit accepts a fresh incoming sighting (sx, sy), its
\* navigation target becomes (0.2*hx + sx, 0.2*hy + sy), (hx, hy) being the
\* unit's home corner, whatever the unit's current waypoint index.
C27_SightingBlendedWithHomeCorner ==
    LET HomeCorner == patrol_positions[last.pre.unit_id]
    IN  (/\ Iterated("sensor")
         /\ ~last.aborted
         /\ BothTruthy(LastDecoded)
         /\ LastFresh)
            => last.afterMsg.navigator.target_pos =
                   << (2 * HomeCorner[1]) \div 10 + LastDecoded.x,
                      (2 * HomeCorner[2]) \div 10 + LastDecoded.y >>

\* C28: when the strike unit accepts a fresh incoming sighting (sx, sy),
\* its navigation target becomes exactly (sx, sy), no home-corner blend,
\* and it relays the sighting as a broadcast in the same iteration before
\* its Thrust command.
C28_StrikeTargetsSightingAndRelays ==
    (/\ Iterated("strike")
     /\ ~last.aborted
     /\ LastDecoded.found
     /\ LastDecoded.x # 0
     /\ LastDecoded.y # 0
     /\ LastFresh)
        => /\ strike.navigator.target_pos = << LastDecoded.x, LastDecoded.y >>
           /\ strike.target_position = << LastDecoded.x, LastDecoded.y >>
           /\ Len(last.cmds) = 4
           /\ \A i \in 1..3 :
                 /\ last.cmds[i].type = "msg"
                 /\ last.cmds[i].text = << Num(LastDecoded.x), Num(LastDecoded.y),
                                           Num(LastDecoded.timestamp) >>
           /\ last.cmds[4].type = "thrust"

\* the strike unit, steering at the origin, accepted the sighting (3,4)
C28_Witness ==
    /\ Iterated("strike")
    /\ ~last.aborted
    /\ LastDecoded.found
    /\ LastFresh
    /\ last.pre.navigator.target_pos = <<0, 0>>
    /\ strike.navigator.target_pos = <<3, 4>>
    /\ Len(last.cmds) = 4

\* C29: when one response gives a sensor unit both a fresh incoming
\* sighting and an own TARGET detection, the message-derived sighting is
\* applied first and the own detection second: at the end of the detection
\* step the attack target and the navigation target are the position
\* resolved from the own detection, not the message-derived one.
C29_OwnDetectionOverridesSighting ==
    (/\ Iterated("sensor")
     /\ ~last.aborted
     /\ LastDecoded.found
     /\ LastDecoded.x # 0
     /\ LastDecoded.y # 0
     /\ LastFresh
     /\ HasTargetSample)
        => /\ last.afterMsg.target_position =
                  << (2 * Waypoint(last.pre)[1]) \div 10 + LastDecoded.x,
                     (2 * Waypoint(last.pre)[2]) \div 10 + LastDecoded.y >>
           /\ last.afterMsg.navigator.target_pos = last.afterMsg.target_position
           /\ last.atBranch.target_position = ResolvedTarget(Len(LastTargets))
           /\ last.atBranch.navigator.target_pos = ResolvedTarget(Len(LastTargets))
           /\ last.atBranch.state = "ATTACK"

\* sensor 1 at (0,0) got the sighting (3,4) and saw a target 12 north: the
\* message gave (15,16), the own detection replaced it by (0,12)
C29_Witness ==
    /\ Iterated("sensor")
    /\ ~last.aborted
    /\ LastFresh
    /\ HasTargetSample
    /\ last.afterMsg.target_position = <<15, 16>>
    /\ last.atBranch.target_position = <<0, 12>>
    /\ last.atBranch.navigator.target_pos = <<0, 12>>

\* the i-th command of the last pass relays the received sighting
IsRelay(i) ==
    /\ last.cmds[i].type = "msg"
    /\ last.cmds[i].text = << Num(LastDecoded.x), Num(LastDecoded.y),
                              Num(LastDecoded.timestamp) >>

\* the j-th command of the last pass broadcasts an own detection
IsOwnBroadcast(j) ==
    /\ last.unit = "sensor"
    /\ last.cmds[j].type = "msg"
    /\ \E k \in 1..Len(LastTargets) :
           last.cmds[j].text = << Num(ResolvedTarget(k)[1]),
                                  Num(ResolvedTarget(k)[2]), Num(last.now) >>

\* C30: within one loop iteration the commands are emitted in the order:
\* Broadcasts relaying an incoming sighting, then Broadcasts for own
\* detections, then the Thrust command; the Thrust is the last command of
\* the iteration, no Broadcast of the iteration comes after it.
C30_BroadcastsPrecedeThrust ==
    (Iterated("sensor") \/ Iterated("strike"))
        => /\ \A i \in 1..Len(last.cmds) :
                 /\ last.cmds[i].type = "thrust" => i = Len(last.cmds)
                 /\ last.cmds[i].type = "msg" => IsRelay(i) \/ IsOwnBroadcast(i)
           /\ ~last.aborted => last.cmds[Len(last.cmds)].type = "thrust"
           /\ \A i \in 1..Len(last.cmds) : \A j \in 1..Len(last.cmds) :
                 (IsRelay(i) /\ IsOwnBroadcast(j)) => i < j

\* a sensor pass yielded the relay of (3,4), then its own sighting, then
\* the Thrust: seven commands
C30_Witness ==
    /\ Iterated("sensor")
    /\ Len(last.cmds) = 7
    /\ IsRelay(1) /\ IsRelay(3)
    /\ IsOwnBroadcast(4) /\ IsOwnBroadcast(6)
    /\ ~IsOwnBroadcast(1)
    /\ last.cmds[7].type = "thrust"

\* C31: the impulse sent in an iteration is computed against the navigation
\* target that is in effect after that iteration's state-machine
\* evaluation, including iterations in which the target was just changed by
\* a patrol waypoint advance or by an Attack-to-Patrol return: the Thrust of
\* the pass carries what get_navigation_impulse gives for the navigator that
\* entered the state evaluation once it steers at the target the unit is
\* left with.
C31_ImpulseAgainstTargetInEffect ==
    LET unit == IF last.unit = "sensor" THEN sensor ELSE strike
        inEffect == set_target(last.atBranch.navigator,
                               unit.navigator.target_pos)
    IN  ((Iterated("sensor") \/ Iterated("strike")) /\ ~last.aborted)
            => last.cmds[Len(last.cmds)]
                   = ThrustCommand(get_navigation_impulse(inEffect).impulse)

\* C32: is_at_target(t) returns true if and only if a position and a target
\* are both known and the distance between them is strictly less than t,
\* for every threshold t passed by the caller including t = 0; with no
\* argument the threshold is arrival_threshold (0.1).
C32_AtTargetIffWithinThreshold ==
    navOp.op = "is_at_target"
        => (navOp.at <=>
               /\ nav.target_pos # None
               /\ nav.last_pos # None
               /\ DistLess(nav.last_pos, nav.target_pos,
                           IF navOp.given THEN navOp.thr
                           ELSE ARRIVAL_THRESHOLD))

\* C33: a sensor unit already in Attack that receives a fresh sighting or
\* an own TARGET detection at a position different from its current attack
\* target replaces its attack target and navigation target with the new one
\* (resetting the axis controllers) and stays governed by Attack handling
\* in that iteration: the state evaluation is entered in Attack with the
\* new target, no Patrol state is visited in between.
\* (The new target is the position resolved from the last own TARGET
\* sample if there is one, otherwise the received sighting blended with the
\* patrol position as at units.py 149-152.)
C33_AttackRetargetsOnNewSighting ==
    LET new == IF HasTargetSample
               THEN ResolvedTarget(Len(LastTargets))
               ELSE << (2 * Waypoint(last.pre)[1]) \div 10 + LastDecoded.x,
                       (2 * Waypoint(last.pre)[2]) \div 10 + LastDecoded.y >>
    IN  (/\ Iterated("sensor")
         /\ ~last.aborted
         /\ last.pre.state = "ATTACK"
         /\ HasTargetSample \/ (LastDecoded.found /\ LastFresh)
         /\ new # last.pre.target_position)
            => /\ last.atBranch.state = "ATTACK"
               /\ last.atBranch.target_position = new
               /\ last.atBranch.navigator.target_pos = new
               /\ last.atBranch.navigator.pid_x = PIDController
               /\ last.atBranch.navigator.pid_y = PIDController

\* C34: in simulation_controller.SensorUnit, an iteration in which a
\* TARGET-detected message command was emitted sends no Thrust command: the
\* movement command is skipped for that cycle and the generator goes
\* straight to the next queue wait.
C34_TargetMessageSkipsThrust ==
    (Iterated("controller") /\ CountType(last.cmds, "msg") >= 1)
        => CountType(last.cmds, "thrust") = 0

\* C35: at the end of every completed iteration of a sensor unit's
\* generator the navigator target agrees with the behavior state: in Patrol
\* the navigation target equals home corner plus the offset at the current
\* waypoint index, in Attack it equals the unit's stored attack target,
\* which is not None.
C35_NavigationTargetAgreesWithState ==
    (Iterated("sensor") /\ ~last.aborted)
        => IF sensor.state = "PATROL"
           THEN sensor.navigator.target_pos =
                    << patrol_positions[sensor.unit_id][1]
                         + subpatrol_positions[sensor.subpatrol_idx + 1][1],
                       patrol_positions[sensor.unit_id][2]
                         + subpatrol_positions[sensor.subpatrol_idx + 1][2] >>
           ELSE /\ sensor.state = "ATTACK"
                /\ sensor.target_position # None
                /\ sensor.navigator.target_pos = sensor.target_position

\* sensor 1, moved on to its second waypoint, saw a target 5 north of
\* (60,59), entered Attack and, within 10.0 of it, returned to Patrol in the
\* same pass: the navigator steers at the second waypoint (40,60) while the
\* stored attack target stays (60,64)
C35_Witness ==
    /\ Iterated("sensor")
    /\ ~last.aborted
    /\ last.pre.subpatrol_idx = 1
    /\ last.atBranch.state = "ATTACK"
    /\ last.atBranch.navigator.target_pos = <<60, 64>>
    /\ sensor.state = "PATROL"
    /\ sensor.target_position = <<60, 64>>
    /\ sensor.navigator.target_pos = <<40, 60>>

\* C36: when a unit relays a fresh received sighting, the three Broadcast
\* commands carry exactly the received x, y and timestamp (the original
\* timestamp is never replaced by the current time, and the sensor's 0.2
\* home blend is not applied to the relayed coordinates); only broadcasts
\* caused by an own detection carry a timestamp taken from the local clock.
C36_RelayCarriesReceivedSighting ==
    LET accepted == BothTruthy(LastDecoded) /\ LastFresh
        received == << Num(LastDecoded.x), Num(LastDecoded.y),
                       Num(LastDecoded.timestamp) >>
        first == IF accepted THEN 4 ELSE 1
    IN  ((Iterated("sensor") \/ Iterated("strike")) /\ ~last.aborted)
            => /\ accepted
                    => /\ Len(last.cmds) >= 3
                       /\ \A i \in 1..3 :
                              last.cmds[i] = [type |-> "msg", impulse |-> << >>,
                                              text |-> received]
               /\ \A i \in first..Len(last.cmds) :
                      last.cmds[i].type = "msg"
                          => /\ last.unit = "sensor"
                             /\ \E k \in 1..Len(LastTargets) :
                                    last.cmds[i].text =
                                        << Num(ResolvedTarget(k)[1]),
                                           Num(ResolvedTarget(k)[2]),
                                           Num(last.now) >>

\* sensor 1 at time 1.0 relayed the sighting (3, 4) stamped 0.5 unchanged,
\* steering itself at the blended (15, 16), and stamped the broadcast of
\* its own detection (0, 12) with its clock
C36_Witness ==
    /\ Iterated("sensor")
    /\ ~last.aborted
    /\ last.now = 2
    /\ Len(last.cmds) = 7
    /\ last.cmds[1].text = << Num(3), Num(4), Num(1) >>
    /\ last.afterMsg.target_position = <<15, 16>>
    /\ last.cmds[4].text = << Num(0), Num(12), Num(2) >>

\* C37: relaying cannot keep a sighting alive.  In a pass that starts more
\* than 1.0 s after the latest pass in which any unit had a TARGET among
\* its own detections, whatever Broadcast the server delivers, the unit
\* yields no Broadcast, a sensor in Patrol does not go to Attack and the
\* strike unit's target stays as it was.
C37_RelayCannotKeepSightingAlive ==
    ((Iterated("sensor") \/ Iterated("strike"))
         /\ last.now - sighted > FRESH_WINDOW)
        => /\ CountType(last.cmds, "msg") = 0
           /\ last.unit = "sensor"
                  => (last.atBranch.state = "ATTACK"
                          => last.pre.state = "ATTACK")
           /\ last.unit = "strike"
                  => last.atBranch.target_position = last.pre.target_position

\* a sensor's own Broadcast of clock reading 2 reaches the strike unit at
\* clock reading 5, no target having been in sight since
C37_Witness ==
    /\ Iterated("strike")
    /\ sighted = StartClock
    /\ last.now = StartClock + FRESH_WINDOW + 1
    /\ last.response.messages # << >>
    /\ BothTruthy(LastDecoded)
    /\ LastDecoded.timestamp = sighted
    /\ last.response.messages[1].text \in aired
    /\ CountType(last.cmds, "msg") = 0

\* C38: while a unit's running flag has stayed True, the responses its
\* reader has received are, each exactly once, either on the queue or taken
\* off it by the generator for a pass of its loop, however many of them
\* wait on the queue; and with the generator scheduled fairly each received
\* response is eventually taken for a pass, unless the flag is cleared.
C38_EveryResponseProcessedOnce ==
    /\ [](\A u \in Units :
             running[u]
                 => LET held == taken[u] \o [i \in 1..Len(queue[u]) |->
                                                queue[u][i].seq]
                    IN  /\ Len(held) = recvd[u]
                        /\ \A n \in 1..recvd[u] :
                               \E i \in 1..Len(held) : held[i] = n)
    /\ \A u \in Units : \A n \in 1..MaxResponses :
           (running[u] /\ recvd[u] >= n)
               ~> (\/ ~running[u]
                   \/ \E i \in 1..Len(taken[u]) : taken[u][i] = n)

\* the reader was two responses ahead of the sensor's generator, which has
\* then taken the first of them
C38_Witness ==
    /\ running["sensor"]
    /\ recvd["sensor"] = 2
    /\ taken["sensor"] = << 1 >>
    /\ Len(queue["sensor"]) = 1
    /\ queue["sensor"][1].seq = 2

\* C39: in every completed pass in which the strike unit accepts no fresh
\* sighting and stands within 10.0 of its navigation target, the navigation
\* target is the origin when the impulse is computed, also when the
\* response carries a stale sighting.
C39_StrikeReturnsToOriginOnArrival ==
    (/\ Iterated("strike")
     /\ ~last.aborted
     /\ ~(BothTruthy(LastDecoded) /\ LastFresh)
     /\ is_at_target(update_position(last.pre.navigator, last.response.pos),
                     ATTACK_ARRIVAL))
        => last.atBranch.navigator.target_pos = <<0, 0>>

\* C40: a response whose samples are all of class OBSTACLE or TARGET and
\* hold k TARGET samples makes the sensor yield, after the relay if any,
\* exactly 3*k Broadcasts: three per TARGET sample, the samples taken in
\* the order north, northeast, east, southeast, south, southwest, west,
\* northwest, each carrying the position resolved from the sample.  At the
\* end of the detection step the attack target is the position resolved
\* from the last TARGET sample in that order; with no TARGET sample the
\* detection step changes nothing.
C40_ThreeBroadcastsPerTargetInCompassOrder ==
    LET compass == << "north", "northeast", "east", "southeast",
                      "south", "southwest", "west", "northwest" >>
        det     == last.response.detections
        targets == SelectSeq(compass,
                             LAMBDA c : c \in DOMAIN det /\ det[c].class = 1)
        k       == Len(targets)
        at(i)   == get_arch_centre(targets[i], det[targets[i]].distance,
                                   last.response.pos[1], last.response.pos[2])
        relayed == IF BothTruthy(LastDecoded) /\ LastFresh
                   THEN MESSAGE_REDUNDANCY ELSE 0
    IN  (/\ Iterated("sensor")
         /\ ~last.aborted
         /\ \A c \in DOMAIN det : det[c].class \in { 0, 1 })
            => /\ Len(last.cmds) = relayed + 3 * k + 1
               /\ \A i \in 1..k : \A j \in 1..3 :
                      last.cmds[relayed + 3 * (i - 1) + j] =
                          MsgCommand(<< Num(at(i)[1]), Num(at(i)[2]),
                                        Num(last.now) >>)
               /\ last.cmds[relayed + 3 * k + 1].type = "thrust"
               /\ IF k = 0
                  THEN last.atBranch = last.afterMsg
                  ELSE /\ last.atBranch.state = "ATTACK"
                       /\ last.atBranch.target_position = at(k)
                       /\ last.atBranch.navigator.target_pos = at(k)
                       /\ last.atBranch.subpatrol_idx
                              = last.afterMsg.subpatrol_idx
                       /\ last.atBranch.position = last.afterMsg.position

\* targets to the north, south and northwest and an obstacle to the east
\* in one response: nine Broadcasts, the attack target the one resolved
\* from the northwest sample
C40_Witness ==
    /\ Iterated("sensor")
    /\ ~last.aborted
    /\ DOMAIN last.response.detections
           = { "north", "east", "south", "northwest" }
    /\ last.response.pos = <<0, 5>>
    /\ CountType(last.cmds, "msg") = 9
    /\ last.cmds[1].text = << Num(0), Num(17), Num(last.now) >>
    /\ last.cmds[4].text = << Num(0), Num(0), Num(last.now) >>
    /\ last.atBranch.target_position
           = get_arch_centre("northwest", 7, 0, 5)
    /\ last.atBranch.target_position # <<0, 17>>

\* C6: for every response dequeued by a unit's generator exactly one Thrust
\* command is emitted in that iteration, whatever the response contains.
C6_OneThrustPerResponse ==
    (Iterated("sensor") \/ Iterated("strike"))
        => CountType(last.cmds, "thrust") = 1

====
